---- MODULE Spec2Model ----
(***************************************************************************)
(* State-machine model of the ablation agent loop                          *)
(* (src/ablation/core_ablation.py, run_agent_loop_ablation) together with  *)
(* the tool registry (src/ablation/tools.py) and the variant presets       *)
(* (src/ablation/config.py).                                               *)
(*                                                                         *)
(* One action per suspension point of the loop (harness, RED gate, one LLM *)
(* attempt, one tool-dispatch batch, one adapter call); the code that runs *)
(* between two suspension points is part of the action that precedes it.   *)
(***************************************************************************)
EXTENDS Integers, Sequences, FiniteSets, TLC

(***************************************************************************)
(* Program constants.                                                      *)
(***************************************************************************)
MAX_RUNTIME_SECONDS == 1200
max_tool_calls == 15
max_retries == 5
MsgLimit == 30
LocKeepFirst == 3
LocKeepLast == 15
PatchKeepFirst == 2
PatchKeepLast == 20
FormatRepeatStop == 4
OtherRepeatStop == 2
ForceAfterRepeats == 2

(***************************************************************************)
(* Bounds of the model (not program constants).                            *)
(***************************************************************************)
MaxElapsed == 3000
BigBatch == 28
ConvLocBudget == 16
ConvPatchShort == 2
ConvPatchLong == 6
ConvBudget == 4
LocBudget == 1
PatchBudget == 2
Budget == 2
MaxCandidates == 2
LongCall == 1200
FormatPatchBudget == 5
GatesPatchBudget == 3
GatesBudget == 3
CandBatch == 3
MaxBatch == 2

None == "None"

VARIABLES
    cfg,                        \* AblationConfig + max_iters of this run
    env,                        \* what the collaborators of this run may answer
    pc,                         \* position of the loop
    it,                         \* for it in range(1, max_iters + 1)
    elapsed,                    \* time.time() - start_time
    result,                     \* the value returned (or the exception raised)
    metrics,
    messages,
    patch_messages,
    nextId,                     \* identity of the next assistant message
    tool_call_count,
    symbol_blocks_read,
    localization_api_count,
    patch_phase_api_count,
    git_apply_fail_count,
    compile_fail_count,
    consecutive_direct_patches,
    last_fail_type,
    last_fail_sig,
    repeated_fail_count,
    force_structured_edits,
    retry_count,
    forced,                     \* which limit forces the localization result
    patch_text,                 \* the patch of the attempt in progress
    patch_already_applied,
    cand,                       \* candidate loop of the structured-edits path
    last_patch,
    hist,                       \* history of the run (observations only)
    workdir_state,              \* the working tree against HEAD
    runtime,                    \* ToolRuntime, the tool-call cache, the batch in hand
    fn_io                       \* a function called on its own: arguments and result

loop_vars == << pc, it, elapsed, result, metrics, messages, patch_messages,
                nextId, tool_call_count, symbol_blocks_read, localization_api_count,
                patch_phase_api_count, git_apply_fail_count, compile_fail_count,
                consecutive_direct_patches, last_fail_type, last_fail_sig,
                repeated_fail_count, force_structured_edits, retry_count, forced,
                patch_text, patch_already_applied, cand, last_patch, hist,
                workdir_state >>

vars == << cfg, env, pc, it, elapsed, result, metrics, messages, patch_messages,
           nextId, tool_call_count, symbol_blocks_read, localization_api_count,
           patch_phase_api_count, git_apply_fail_count, compile_fail_count,
           consecutive_direct_patches, last_fail_type, last_fail_sig,
           repeated_fail_count, force_structured_edits, retry_count, forced,
           patch_text, patch_already_applied, cand, last_patch, hist, workdir_state,
           runtime, fn_io >>

(***************************************************************************)
(* Conversation messages.  role, tag (what the content is), id and n:      *)
(* an assistant message has a fresh id and carries n tool calls (n = 0: no *)
(* tool_calls key); the tool message answering call k of assistant a has   *)
(* id = a and n = k (its tool_call_id).  A PATCH_FAIL_SUMMARY message      *)
(* carries its type in info and its repeat count in n.                     *)
(***************************************************************************)
Msg(role, tag, id, n) == [role |-> role, tag |-> tag, id |-> id, n |-> n, info |-> ""]
SystemMsg == Msg("system", "system", 0, 0)
UserMsg(tag) == Msg("user", tag, 0, 0)
AssistantMsg(id, n) == Msg("assistant", "assistant", id, n)
ToolMsg(id, k) == Msg("tool", "tool", id, k)

IsSystem(m) == m.role = "system"
IsOther(m) == m.role # "system"
HasToolCalls(m) == m.role = "assistant" /\ m.n > 0

\* Python's 0-based indexing, kept so that the scans read like the source.
At(s, i) == s[i + 1]
Slice(s, a, b) == IF b <= a THEN << >> ELSE SubSeq(s, a + 1, b)


(***************************************************************************)
(* Conversation truncation (shared shape of the localize and the patch     *)
(* truncation; both also overwrite the loop's tool_call_count).            *)
(***************************************************************************)
RECURSIVE ToolRunFrom(_, _)
ToolRunFrom(s, j) ==
    IF j < Len(s) /\ At(s, j).role = "tool" THEN 1 + ToolRunFrom(s, j + 1) ELSE 0

\* tool_responses_after: the tool messages that directly follow index i
tool_responses_after(s, i) == ToolRunFrom(s, i + 1)

\* for i in range(cut_point - 1, keep_first - 1, -1): ... safe_cut_point = i; break
RECURSIVE SafeCutScan(_, _, _, _, _)
SafeCutScan(s, i, cut_point, keep_first, tcc) ==
    IF i < keep_first
    THEN [cut |-> cut_point, tcc |-> tcc]
    ELSE IF HasToolCalls(At(s, i))
         THEN IF /\ tool_responses_after(s, i) > 0
                 /\ i + tool_responses_after(s, i) >= cut_point
              THEN [cut |-> i, tcc |-> At(s, i).n]
              ELSE SafeCutScan(s, i - 1, cut_point, keep_first, At(s, i).n)
         ELSE SafeCutScan(s, i - 1, cut_point, keep_first, tcc)

\* messages_to_remove of the final safety check
IncompleteAt(kept) ==
    { i \in 0..(Len(kept) - 1) :
        HasToolCalls(At(kept, i)) /\ tool_responses_after(kept, i) < At(kept, i).n }

SetMax(S) == CHOOSE x \in S : \A y \in S : y <= x

\* for idx in reversed(messages_to_remove): kept_msgs = kept_msgs[:idx] + kept_msgs[seq_end:]
RECURSIVE RemoveIncomplete(_, _)
RemoveIncomplete(kept, to_remove) ==
    IF to_remove = {} THEN kept
    ELSE LET idx == SetMax(to_remove)
             seq_end == idx + 1 + ToolRunFrom(kept, idx + 1)
         IN RemoveIncomplete(Slice(kept, 0, idx) \o Slice(kept, seq_end, Len(kept)),
                             to_remove \ {idx})

\* tool_call_count as the final safety check leaves it: the length of the
\* tool_calls of the last assistant message that has the key
SafetyToolCallCount(kept, tcc) ==
    LET A == { i \in 0..(Len(kept) - 1) : HasToolCalls(At(kept, i)) }
    IN IF A = {} THEN tcc ELSE At(kept, SetMax(A)).n

\* the truncation without the removal of incomplete sequences
FinalSafetySkipped(kept, tcc) ==
    [msgs |-> kept,
     tcc  |-> SafetyToolCallCount(kept, tcc),
     removed |-> FALSE]

FinalSafety(kept, tcc) ==
    [msgs |-> RemoveIncomplete(kept, IncompleteAt(kept)),
     tcc  |-> SafetyToolCallCount(kept, tcc),
     removed |-> IncompleteAt(kept) # {}]

\* if len(messages) > 30: ... messages = system_msgs + kept_msgs      (localize)
LocalizeTruncate(msgs, tcc) ==
    LET system_msgs == SelectSeq(msgs, IsSystem)
        other_msgs  == SelectSeq(msgs, IsOther)
        cut_point   == Len(other_msgs) - LocKeepLast
        long        == Len(other_msgs) > LocKeepFirst + LocKeepLast
        scan        == IF long
                       THEN SafeCutScan(other_msgs, cut_point - 1, cut_point, LocKeepFirst, tcc)
                       ELSE [cut |-> 0, tcc |-> tcc]
        kept_msgs   == IF long
                       THEN Slice(other_msgs, 0, LocKeepFirst)
                            \o Slice(other_msgs, scan.cut, Len(other_msgs))
                       ELSE other_msgs
        safe        == FinalSafety(kept_msgs, scan.tcc)
    IN IF Len(msgs) > MsgLimit
       THEN [msgs |-> system_msgs \o safe.msgs, tcc |-> safe.tcc,
             cut |-> TRUE, removed |-> safe.removed]
       ELSE [msgs |-> msgs, tcc |-> tcc, cut |-> FALSE, removed |-> FALSE]

\* if len(patch_messages) > 30: ... patch_messages = kept_msgs           (patch)
PatchTruncate(msgs, tcc) ==
    LET cut_point == Len(msgs) - PatchKeepLast
        long      == Len(msgs) > PatchKeepFirst + PatchKeepLast
        scan      == IF long
                     THEN SafeCutScan(msgs, cut_point - 1, cut_point, PatchKeepFirst, tcc)
                     ELSE [cut |-> 0, tcc |-> tcc]
        kept_msgs == IF long
                     THEN Slice(msgs, 0, PatchKeepFirst) \o Slice(msgs, scan.cut, Len(msgs))
                     ELSE msgs
        safe      == FinalSafety(kept_msgs, scan.tcc)
    IN IF Len(msgs) > MsgLimit
       THEN [msgs |-> safe.msgs, tcc |-> safe.tcc,
             cut |-> TRUE, removed |-> safe.removed]
       ELSE [msgs |-> msgs, tcc |-> tcc, cut |-> FALSE, removed |-> FALSE]

\* handle_tool_calls: one tool message per call, in call order
ToolResults(id, n) == [k \in 1..n |-> ToolMsg(id, k)]

(***************************************************************************)
(* Configuration: the variant presets and the tool registry.               *)
(***************************************************************************)
BaseConfig ==
    [ enable_tdd_gate |-> FALSE, enable_index_retrieval |-> FALSE,
      enable_patch_compile_gate |-> FALSE, use_unified_diff |-> TRUE,
      verify_red_test |-> FALSE, verify_green_test |-> FALSE,
      use_canonical_diff |-> FALSE, use_compile_gate |-> FALSE,
      max_symbol_blocks_per_round |-> 10,
      max_localization_api_calls |-> 36, max_patch_phase_api_calls |-> 50,
      max_tool_calls_per_patch |-> 4, max_consecutive_direct_patches |-> 5,
      max_git_apply_failures |-> 5, max_compile_failures |-> 5,
      max_iters |-> 0, variant |-> "G0" ]

\* AblationConfig.from_variant
from_variant(v) ==
    CASE v = "G0" -> BaseConfig
      [] v = "G1" -> [BaseConfig EXCEPT !.variant = v, !.enable_tdd_gate = TRUE,
                        !.verify_red_test = TRUE, !.verify_green_test = TRUE]
      [] v = "G2" -> [BaseConfig EXCEPT !.variant = v, !.enable_index_retrieval = TRUE]
      [] v = "G3" -> [BaseConfig EXCEPT !.variant = v, !.enable_patch_compile_gate = TRUE,
                        !.use_canonical_diff = TRUE, !.use_compile_gate = TRUE]
      [] v = "G5" -> [BaseConfig EXCEPT !.variant = v, !.enable_tdd_gate = TRUE,
                        !.enable_index_retrieval = TRUE,
                        !.enable_patch_compile_gate = TRUE,
                        !.verify_red_test = TRUE, !.verify_green_test = TRUE,
                        !.use_canonical_diff = TRUE, !.use_compile_gate = TRUE]

\* a run of variant v with max_iters = iters, the two API budgets, and every
\* other patch-phase budget set to b
RunConfig(v, iters, loc_api, patch_api, b) ==
    [from_variant(v) EXCEPT !.max_iters = iters,
        !.max_localization_api_calls = loc_api, !.max_patch_phase_api_calls = patch_api,
        !.max_tool_calls_per_patch = b, !.max_consecutive_direct_patches = b,
        !.max_git_apply_failures = b, !.max_compile_failures = b]

\* setup_tools: the names ToolRuntime.func_map holds
func_map(c, e) ==
    {"read_file", "search_in_files", "apply_patch", "apply_edits", "get_git_diff"}
    \cup (IF c.enable_index_retrieval
          THEN {"symbol_lookup", "find_references", "read_span"} ELSE {})
    \cup (IF c.enable_patch_compile_gate /\ e.adapter THEN {"check_compile"} ELSE {})
    \cup (IF c.enable_tdd_gate /\ e.adapter THEN {"verify_red", "verify_green"} ELSE {})

(***************************************************************************)
(* Results, metrics, patches, collaborator outcomes.                       *)
(***************************************************************************)
Absent == 0 - 1                 \* a key the returned dict does not have

NoPatch == [fmt |-> "none", id |-> 0]                   \* None
LlmDiff(id) == [fmt |-> "diff", id |-> id]              \* unified diff of attempt id
LlmJson(id) == [fmt |-> "json", id |-> id]              \* JSON text of attempt id
LlmText(id) == [fmt |-> "text", id |-> id]              \* any other text of attempt id
GitDiff(id) == [fmt |-> "git_diff", id |-> id]          \* get_git_diff() after attempt id

\* error strings: the fixed text, the limit they quote and the phase suffix
Err(text) == [text |-> text, limit |-> 0, where |-> ""]
NoError == Err("")
TimeoutError(where) ==
    [text |-> "Timeout: exceeded {limit}s runtime limit", limit |-> MAX_RUNTIME_SECONDS,
     where |-> where]

Running ==
    [kind |-> "running", ok |-> FALSE, error |-> NoError, iterations |-> Absent,
     patch |-> NoPatch, has_metrics |-> FALSE, runtime_seconds |-> 0]

\* return {"ok": ..., "iterations": ..., "patch": ..., "error": ..., "metrics": metrics}
Returned(ok, error, its, patch, t) ==
    [kind |-> "return", ok |-> ok, error |-> error, iterations |-> its,
     patch |-> patch, has_metrics |-> TRUE, runtime_seconds |-> t]

\* the two returns that build the dict by hand, without "metrics"
ReturnedBare(error, its) ==
    [kind |-> "return", ok |-> FALSE, error |-> error, iterations |-> its,
     patch |-> NoPatch, has_metrics |-> FALSE, runtime_seconds |-> 0]

\* an exception that leaves run_agent_loop_ablation
Raised(callee) ==
    [kind |-> "raised", ok |-> FALSE, error |-> Err(callee), iterations |-> Absent,
     patch |-> NoPatch, has_metrics |-> FALSE, runtime_seconds |-> 0]

_make_error_result(error_msg, its, patch, t) == Returned(FALSE, Err(error_msg), its, patch, t)

\* metrics["runtime_seconds"] = end_time - start_time, on the exits that set it
AtExit(m, res) ==
    IF res.has_metrics THEN [m EXCEPT !.runtime_seconds = res.runtime_seconds] ELSE m

Metrics0 ==
    [ total_api_calls |-> 0, localization_api_calls |-> 0, patch_api_calls |-> 0,
      total_tool_calls |-> 0, localization_tool_calls |-> 0, patch_tool_calls |-> 0,
      compile_failures |-> 0, git_apply_failures |-> 0, validation_failures |-> 0,
      patch_attempts |-> 0, apply_attempt_count |-> 0, apply_success_count |-> 0,
      compile_attempt_count |-> 0, compile_success_count |-> 0,
      tdd_gate_red_verified |-> FALSE, tdd_gate_green_verified |-> FALSE,
      runtime_seconds |-> 0 ]

\* what an LLM request attempt yields: a message (kind, n tool calls or n
\* patch candidates, the validator's diagnostic for a diff) or an API error
Out(kind, n, diag) == [kind |-> kind, n |-> n, diag |-> diag]
IsApiError(o) == o.kind \in {"err_quota", "err_rate_limit", "err_rate_limit_per_min",
                            "err_temporary", "err_other"}

\* never fatal
never_fatal(o) == FALSE

_is_fatal_stop_immediately(o) == o.kind = "err_quota"
is_rate_limit(o) == o.kind \in {"err_rate_limit", "err_rate_limit_per_min"}
is_temporary(o) == o.kind = "err_temporary"

RECURSIVE Pow2(_)
Pow2(k) == IF k <= 0 THEN 1 ELSE 2 * Pow2(k - 1)

Max(a, b) == IF a >= b THEN a ELSE b

\* the same wait before every retry
flat_wait(rc, retry_delay, o) == retry_delay

\* wait = retry_delay * 2 ** (retry_count - 1), at least 60 for a per-minute limit
_retry_wait_seconds(rc, retry_delay, o) ==
    LET wait == retry_delay * Pow2(rc - 1)
    IN IF o.kind = "err_rate_limit_per_min" THEN Max(wait, 60) ELSE wait

\* what verify_red / verify_green return: {"ran": ..., "rc": ...} (rc may be None)
TestResult(kind, ran, has_rc, rc) == [kind |-> kind, ran |-> ran, has_rc |-> has_rc, rc |-> rc]

NoCand == [n |-> 0, idx |-> 0, errors |-> 0]

\* a failure signature: what its first 200 characters hold (a text h and a
\* number k) and whether it goes on after them
Sig(h, k, long) == [h |-> h, k |-> k, long |-> long]
\* sig_short = (sig or "")[:200]
sig_short(sig) == [h |-> sig.h, k |-> sig.k]
NoSig == [h |-> "None", k |-> 0]

Hist0 ==
    [ llm_calls |-> 0,            \* client requests started
      harness |-> "none",         \* what harness_fn returned (harness_info)
      apply_ok |-> FALSE,         \* the last call of apply_patch_fn returned ok
      started_late |-> {},        \* calls started at or after the limit
      polled_late |-> FALSE,      \* a call followed by a clock check returned late
      after_polled |-> {},        \* calls started after such a return
      red |-> TestResult("none", FALSE, FALSE, 0),    \* what verify_red returned
      last_call |-> "none",       \* the call made last
      green |-> [n |-> 0, r |-> TestResult("none", FALSE, FALSE, 0), patch |-> NoPatch],
                                  \* calls of verify_green, what the last one returned
                                  \* and the patch it ran on
      validate |-> [n |-> 0, outcome |-> "none", late |-> FALSE, it |-> 0, patch |-> NoPatch,
                    green |-> NoPatch],
                                  \* the last call of validate_fn; green: the patch of
                                  \* the last verify_green that returned before it
      forced_it |-> 0,            \* iteration in which force_structured_edits was set
      diff_after_force |-> 0,     \* iteration of an LLM diff given to apply_patch_fn after that
      diff_while_forced |-> FALSE,\* ... while force_structured_edits was set
      via_apply_edits |-> FALSE,  \* apply_edits was called for the current attempt
      attempts |-> << >>,         \* the direct patches of the current patch phase
      sigs |-> << >>,             \* the failures recorded in the current patch phase
      force_at |-> 0,             \* the attempt of it that set force_structured_edits
      force_prev |-> << >>,       \* the failures recorded in the phase before that one
      truncated |-> {},           \* the phases whose conversation was truncated
      dropped_incomplete |-> FALSE,   \* a truncation removed an incomplete sequence
      cand_results |-> << >>,     \* how each candidate of the current attempt ended
      compile_rejected |-> 0,     \* patch attempts rejected for a compile failure
      asked_after |-> {},         \* failure types repeated up to their limit when
                                  \* the patch loop sent its next request
      loc_requested |-> 0,        \* tool calls requested in the current localize
                                  \* phase, counted up to max_tool_calls
      free_after_cap |-> FALSE,   \* a tool_choice="auto" localize request was sent
                                  \* after that count had reached max_tool_calls
      applied_on_leftover |-> FALSE,  \* edits or a diff were applied to a working
                                  \* tree that held what a rejected one had written
      responses |-> [localize |-> 0, patch |-> 0],  \* LLM requests answered, by phase
      requests |-> [localize |-> 0, patch |-> 0],   \* LLM requests issued, by phase
                                  \* (the retries of a request are part of it)
      in_phase |-> [localize |-> 0, free |-> 0, patch |-> 0],
                                  \* LLM requests issued in the current localize
                                  \* phase (free: with tool_choice="auto") and in
                                  \* the current patch phase
      req |-> [calls |-> 0, errs |-> << >>, waits |-> << >>],
                                  \* the request in turn: client calls made for it,
                                  \* the errors they raised, the waits slept
      quota |-> [seen |-> FALSE, llm_calls |-> 0, metrics |-> Metrics0] ]
                                  \* a request failed with credits/quota exhausted:
                                  \* the requests made and the metrics at that time

(***************************************************************************)
(* Initial state: after the metrics dict and messages = [system] are built *)
(***************************************************************************)
InitLoop(c, e) ==
    /\ cfg = c
    /\ env = e
    /\ pc = "harness"
    /\ it = 0
    /\ elapsed = 0
    /\ result = Running
    /\ metrics = Metrics0
    /\ messages = << SystemMsg >>
    /\ patch_messages = << >>
    /\ nextId = 1
    /\ tool_call_count = 0
    /\ symbol_blocks_read = 0
    /\ localization_api_count = 0
    /\ patch_phase_api_count = 0
    /\ git_apply_fail_count = 0
    /\ compile_fail_count = 0
    /\ consecutive_direct_patches = 0
    /\ last_fail_type = None
    /\ last_fail_sig = NoSig
    /\ repeated_fail_count = 0
    /\ force_structured_edits = FALSE
    /\ retry_count = 0
    /\ forced = "none"
    /\ patch_text = NoPatch
    /\ patch_already_applied = FALSE
    /\ cand = NoCand
    /\ last_patch = NoPatch
    /\ hist = Hist0
    /\ workdir_state = "clean"

\* _tool_call_cache = {} and a ToolRuntime that has handled nothing yet
Runtime0 ==
    [ pc |-> "idle",            \* idle, returned (tool_messages in hand) or raised
      cache |-> {},             \* _tool_call_cache: records [name, args, result]
      batch |-> << >>,          \* the tool_calls being handled
      tool_messages |-> << >>,
      calls |-> << >>,          \* what was done for each call of the batch
      oks |-> {} ]              \* calls of this run that returned an ok result

\* no function is called on its own
NoCall == [fn |-> "none", args |-> << >>, returned |-> FALSE, out |-> None]

InitWith(c, e) == InitLoop(c, e) /\ runtime = Runtime0 /\ fn_io = NoCall

(***************************************************************************)
(* The locals of the running loop as one record, so that the code between  *)
(* two suspension points can be written as operators on it.                *)
(***************************************************************************)
Cur ==
    [ pc |-> pc, it |-> it, elapsed |-> elapsed, result |-> result, metrics |-> metrics,
      messages |-> messages, patch_messages |-> patch_messages, nextId |-> nextId,
      tool_call_count |-> tool_call_count, symbol_blocks_read |-> symbol_blocks_read,
      localization_api_count |-> localization_api_count,
      patch_phase_api_count |-> patch_phase_api_count,
      git_apply_fail_count |-> git_apply_fail_count,
      compile_fail_count |-> compile_fail_count,
      consecutive_direct_patches |-> consecutive_direct_patches,
      last_fail_type |-> last_fail_type, last_fail_sig |-> last_fail_sig,
      repeated_fail_count |-> repeated_fail_count,
      force_structured_edits |-> force_structured_edits,
      retry_count |-> retry_count, forced |-> forced, patch_text |-> patch_text,
      patch_already_applied |-> patch_already_applied, cand |-> cand,
      last_patch |-> last_patch, hist |-> hist, workdir_state |-> workdir_state ]

Commit(s) ==
    /\ pc' = s.pc
    /\ it' = s.it
    /\ elapsed' = s.elapsed
    /\ result' = s.result
    /\ metrics' = s.metrics
    /\ messages' = s.messages
    /\ patch_messages' = s.patch_messages
    /\ nextId' = s.nextId
    /\ tool_call_count' = s.tool_call_count
    /\ symbol_blocks_read' = s.symbol_blocks_read
    /\ localization_api_count' = s.localization_api_count
    /\ patch_phase_api_count' = s.patch_phase_api_count
    /\ git_apply_fail_count' = s.git_apply_fail_count
    /\ compile_fail_count' = s.compile_fail_count
    /\ consecutive_direct_patches' = s.consecutive_direct_patches
    /\ last_fail_type' = s.last_fail_type
    /\ last_fail_sig' = s.last_fail_sig
    /\ repeated_fail_count' = s.repeated_fail_count
    /\ force_structured_edits' = s.force_structured_edits
    /\ retry_count' = s.retry_count
    /\ forced' = s.forced
    /\ patch_text' = s.patch_text
    /\ patch_already_applied' = s.patch_already_applied
    /\ cand' = s.cand
    /\ last_patch' = s.last_patch
    /\ hist' = s.hist
    /\ workdir_state' = s.workdir_state
    /\ UNCHANGED << cfg, env, runtime, fn_io >>

\* a call of the given kind that takes d seconds
Call(s, kind, d) ==
    [s EXCEPT
       !.elapsed = @ + d,
       !.hist = [@ EXCEPT
          !.started_late = IF s.elapsed >= MAX_RUNTIME_SECONDS THEN @ \cup {kind} ELSE @,
          !.after_polled = IF s.hist.polled_late THEN @ \cup {kind} ELSE @,
          !.llm_calls = IF kind = "llm" THEN @ + 1 ELSE @,
          !.last_call = kind]]

\* the call that just returned is one the loop follows with a clock check
Polled(s) ==
    [s EXCEPT !.hist = [@ EXCEPT !.polled_late = @ \/ s.elapsed >= MAX_RUNTIME_SECONDS]]

\* time.sleep(wait_time)
Sleep(s, w) ==
    [s EXCEPT !.elapsed = @ + w,
              !.hist = [@ EXCEPT !.req = [@ EXCEPT !.waits = Append(@, w)]]]

\* the loop ends with res: a return or an escaping exception
Finish(s, res) ==
    [s EXCEPT !.pc = "done", !.result = res, !.metrics = AtExit(s.metrics, res)]

Raise(s, callee) == Finish(s, Raised(callee))

ErrorResult(s, error_msg) ==
    Finish(s, _make_error_result(error_msg, Absent, NoPatch, s.elapsed))

\* a truncation of the given phase's conversation took place
Truncated(s, phase, tr) ==
    IF tr.cut
    THEN [s EXCEPT !.hist = [@ EXCEPT !.truncated = @ \cup {phase},
                                      !.dropped_incomplete = @ \/ tr.removed]]
    ELSE s

\* a loop that never looks at the clock
NeverTimedOut(s) == FALSE

\* the five clock checks: elapsed_time >= MAX_RUNTIME_SECONDS
TimedOut(s) == s.elapsed >= MAX_RUNTIME_SECONDS

\* the Timeout result counting the interrupted iteration
TimeoutResultCountingCurrent(s, where) ==
    Finish(s, Returned(FALSE, TimeoutError(where), s.it, s.last_patch, s.elapsed))

\* return {"ok": False, "iterations": it - 1, "patch": last_patch, "error": "Timeout: ..."}
TimeoutResult(s, where) ==
    Finish(s, Returned(FALSE, TimeoutError(where), s.it - 1, s.last_patch, s.elapsed))

(***************************************************************************)
(* Harness and RED gate.                                                   *)
(***************************************************************************)
RedEnabled == cfg.enable_tdd_gate /\ cfg.verify_red_test

\* messages.append(HARNESS_RESULT), the index hint, then the for loop starts
EnterLoop(s) ==
    LET hint == IF cfg.enable_index_retrieval
                THEN << UserMsg(IF env.index_exists THEN "RETRIEVAL_INDEX"
                                ELSE "RETRIEVAL_INDEX_UNAVAILABLE") >>
                ELSE << >>
    IN [s EXCEPT !.messages = (@ \o << UserMsg("HARNESS_RESULT") >>) \o hint,
                 !.pc = "iter", !.it = 1]

\* harness_info = harness_fn()
Harness ==
    /\ pc = "harness"
    /\ \E o \in env.harness, d \in env.durs :
         /\ elapsed + d <= MaxElapsed
         /\ LET s0 == Call(Cur, "harness", d)
                s == [s0 EXCEPT !.hist = [@ EXCEPT !.harness = o]]
            IN Commit(CASE o = "raise" -> Raise(s, "harness_fn")
                        [] o = "fail" -> ErrorResult(s, "Harness failed")
                        [] OTHER ->
                             IF RedEnabled
                             THEN IF "check_compile" \in func_map(cfg, env)
                                  THEN [s EXCEPT !.pc = "red_compile"]
                                  ELSE EnterLoop(s)
                             ELSE EnterLoop(s))

\* compile_result = tool_runtime.func_map["check_compile"]()   (before RED)
RedCompile ==
    /\ pc = "red_compile"
    /\ \E o \in env.compile, d \in env.durs :
         /\ elapsed + d <= MaxElapsed
         /\ LET s == Call(Cur, "check_compile", d)
            IN Commit(CASE o = "raise" -> Raise(s, "check_compile")
                        [] o = "fail" ->
                             ErrorResult(s, "Compilation failed before RED test verification; cannot proceed")
                        [] OTHER ->
                             IF "verify_red" \in func_map(cfg, env)
                             THEN [s EXCEPT !.pc = "red_test"]
                             ELSE ErrorResult(s, "TDD gate enabled but verify_red function not available"))

\* _rc_int in (2, 4)
RedRcStops(r) == r.has_rc /\ r.rc \in {2, 4}

\* only a test that did not run taken as an infrastructure error
RedNotRan(r) == ~r.ran

\* not red_result.get("ran", True) or red_rc in (None, -1, 255)
RedInfraError(r) == ~r.ran \/ ~r.has_rc \/ r.rc \in {0 - 1, 255}

\* red_result = verify_red_fn()
RedTest ==
    /\ pc = "red_test"
    /\ \E r \in env.red, d \in env.durs :
         /\ elapsed + d <= MaxElapsed
         /\ LET s0 == Call(Cur, "verify_red", d)
                s == [s0 EXCEPT !.hist = [@ EXCEPT !.red = r]]
            IN Commit(CASE r.kind = "raise" -> Raise(s, "verify_red")
                        [] r.kind # "raise" /\ RedInfraError(r) ->
                             ErrorResult(s, "RED test execution failed; cannot proceed")
                        [] r.kind # "raise" /\ ~RedInfraError(r) /\ r.rc = 0 ->
                             ErrorResult(s, "RED test did not fail; cannot proceed")
                        [] r.kind # "raise" /\ ~RedInfraError(r) /\ r.rc # 0 /\ RedRcStops(r) ->
                             ErrorResult(s, "RED test rc={rc} (pytest config or no tests collected); cannot proceed")
                        [] OTHER ->
                             EnterLoop([s EXCEPT
                                 !.metrics = [@ EXCEPT !.tdd_gate_red_verified = TRUE],
                                 !.messages = Append(@, UserMsg("TDD_GATE_RED"))]))

(***************************************************************************)
(* Iteration entry and the localize loop.                                  *)
(***************************************************************************)
\* the final return with the loop variable as the iteration count
MaxItersResultOfLoopVariable(s) ==
    [kind |-> "return", ok |-> FALSE,
     error |-> Err("Reached max iterations without successful patch"),
     iterations |-> s.it, patch |-> s.last_patch, has_metrics |-> TRUE,
     runtime_seconds |-> s.elapsed, harness_ok |-> s.hist.harness = "ok"]

\* after the for loop: result = {"ok": False, "iterations": max_iters, "patch":
\* last_patch, "error": ..., "metrics": metrics}; result["harness_ok"] = ...
MaxItersResult(s) ==
    [kind |-> "return", ok |-> FALSE,
     error |-> Err("Reached max iterations without successful patch"),
     iterations |-> cfg.max_iters, patch |-> s.last_patch, has_metrics |-> TRUE,
     runtime_seconds |-> s.elapsed, harness_ok |-> s.hist.harness = "ok"]

\* for it in range(1, max_iters + 1): clock check, localize prompt, counters
IterStart ==
    /\ pc = "iter"
    /\ Commit(IF it > cfg.max_iters
              THEN Finish(Cur, MaxItersResult(Cur))
              ELSE IF TimedOut(Cur)
              THEN TimeoutResult(Cur, "")
              ELSE [Cur EXCEPT !.messages = Append(@, UserMsg("localize_prompt")),
                               !.tool_call_count = 0, !.symbol_blocks_read = 0,
                               !.localization_api_count = 0, !.pc = "loc_top",
                               !.hist = [@ EXCEPT !.loc_requested = 0,
                                                  !.in_phase = [@ EXCEPT !.localize = 0,
                                                                         !.free = 0]]])

\* the user message that asks for the localization result now
ForceLocalization(s, why) ==
    [s EXCEPT !.messages = Append(@, UserMsg(why)), !.forced = why,
              !.retry_count = 0, !.pc = "loc_forced"]

\* top of the localize while loop: clock check, the three limits
LocalizeTop ==
    /\ pc = "loc_top"
    /\ Commit(IF TimedOut(Cur)
              THEN TimeoutResult(Cur, "during localization")
              ELSE IF tool_call_count >= max_tool_calls
              THEN ForceLocalization(Cur, "forced_tool_calls")
              ELSE IF cfg.enable_index_retrieval
                      /\ symbol_blocks_read >= cfg.max_symbol_blocks_per_round
              THEN ForceLocalization(Cur, "forced_symbol_blocks")
              ELSE IF localization_api_count >= cfg.max_localization_api_calls
              THEN ForceLocalization(Cur, "forced_api_calls")
              ELSE [Cur EXCEPT !.localization_api_count = @ + 1, !.retry_count = 0,
                               !.forced = "none", !.pc = "loc_llm"])

\* patch_messages = messages.copy(), PATCH_CONTEXT, the patch prompt, the
\* patch-phase counters, force_structured_edits = False
EnterPatchPhase(s) ==
    [s EXCEPT
       !.patch_messages = (s.messages
                           \o (IF env.patch_context THEN << UserMsg("PATCH_CONTEXT") >> ELSE << >>))
                          \o << UserMsg("patch_prompt") >>,
       !.tool_call_count = 0, !.compile_fail_count = 0, !.patch_phase_api_count = 0,
       !.git_apply_fail_count = 0, !.consecutive_direct_patches = 0,
       !.last_fail_type = None, !.last_fail_sig = NoSig, !.repeated_fail_count = 0,
       !.force_structured_edits = FALSE,
       !.hist = [@ EXCEPT !.attempts = << >>, !.sigs = << >>, !.force_at = 0,
                          !.force_prev = << >>,
                          !.in_phase = [@ EXCEPT !.patch = 0]],
       !.pc = "patch_top"]

\* messages.append({"role": "assistant", "content": ...}); break
LocalizationResult(s) ==
    EnterPatchPhase([s EXCEPT !.messages = Append(@, AssistantMsg(s.nextId, 0)),
                              !.nextId = @ + 1])

\* the request just made ended with o: a response, or an exception
Answered(s, o, phase) ==
    [s EXCEPT !.hist = [@ EXCEPT
        !.responses = IF IsApiError(o) THEN @ ELSE [@ EXCEPT ![phase] = @ + 1],
        !.requests = IF s.retry_count = 0 THEN [@ EXCEPT ![phase] = @ + 1] ELSE @,
        !.in_phase = IF s.retry_count = 0 THEN [@ EXCEPT ![phase] = @ + 1] ELSE @,
        !.req = LET errs == IF IsApiError(o) THEN << o.kind >> ELSE << >>
                IN IF s.retry_count = 0
                   THEN [calls |-> 1, errs |-> errs, waits |-> << >>]
                   ELSE [@ EXCEPT !.calls = @ + 1, !.errs = @ \o errs],
        !.quota = IF o.kind = "err_quota"
                  THEN [seen |-> TRUE, llm_calls |-> s.hist.llm_calls, metrics |-> s.metrics]
                  ELSE @]]

\* the phase counter alone
CountPhaseOnly(m, phase_calls, first) ==
    IF first THEN [m EXCEPT ![phase_calls] = @ + 1] ELSE m

\* if retry_count == 0: metrics[phase counter] += 1; metrics["total_api_calls"] += 1
CountApiCall(m, phase_calls, first) ==
    IF first THEN [m EXCEPT ![phase_calls] = @ + 1, !.total_api_calls = @ + 1] ELSE m

\* one request of a forced localization result (tool_choice="none")
LocalizeForcedLLM ==
    /\ pc = "loc_forced"
    /\ \E o \in env.loc_replies \cup env.llm_errors, d \in env.durs_llm :
         LET s == Answered(Call(Cur, "llm", d), o, "localize")
             rc == retry_count + 1
             retryable == IF forced = "forced_api_calls" THEN TRUE
                          ELSE is_rate_limit(o) \/ is_temporary(o)
             wait == _retry_wait_seconds(rc, 2, o)
         IN /\ elapsed + d + (IF IsApiError(o) THEN wait ELSE 0) <= MaxElapsed
            /\ Commit(IF ~IsApiError(o) THEN LocalizationResult(s)
                      ELSE IF _is_fatal_stop_immediately(o)
                      THEN ErrorResult(s, "LLM credits/quota exhausted")
                      ELSE IF retryable /\ rc < max_retries
                      THEN Sleep([s EXCEPT !.retry_count = rc], wait)
                      ELSE ErrorResult([s EXCEPT !.retry_count = rc],
                                       "Failed to get forced localization result"))

Min(a, b) == IF a <= b THEN a ELSE b

\* the localize loop sends a request that leaves the tools enabled
AskedFree(s) ==
    [s EXCEPT !.hist = [@ EXCEPT
        !.free_after_cap = @ \/ s.hist.loc_requested >= max_tool_calls,
        !.in_phase = IF s.retry_count = 0 THEN [@ EXCEPT !.free = @ + 1] ELSE @]]

\* one request of the localize loop (tool_choice="auto")
LocalizeLLM ==
    /\ pc = "loc_llm"
    /\ \E o \in env.loc_replies \cup env.llm_errors, d \in env.durs_llm :
         LET s == Answered(AskedFree(Call(Cur, "llm", d)), o, "localize")
             rc == retry_count + 1
             wait == _retry_wait_seconds(rc, 2, o)
             counted == [s EXCEPT !.metrics =
                            CountApiCall(@, "localization_api_calls", retry_count = 0)]
         IN /\ elapsed + d + (IF IsApiError(o) THEN wait ELSE 0) <= MaxElapsed
            /\ Commit(IF o.kind = "tools"
                      THEN [counted EXCEPT
                              !.tool_call_count = @ + o.n,
                              !.metrics = [@ EXCEPT !.localization_tool_calls = @ + o.n,
                                                    !.total_tool_calls = @ + o.n],
                              !.messages = Append(@, AssistantMsg(s.nextId, o.n)),
                              !.nextId = @ + 1, !.pc = "loc_tools",
                              !.hist = [@ EXCEPT !.loc_requested =
                                           Min(@ + o.n, max_tool_calls)]]
                      ELSE IF ~IsApiError(o) THEN LocalizationResult(counted)
                      ELSE IF _is_fatal_stop_immediately(o)
                      THEN ErrorResult(s, "LLM credits/quota exhausted")
                      ELSE IF is_rate_limit(o) \/ is_temporary(o)
                      THEN IF rc < max_retries
                           THEN Sleep([s EXCEPT !.retry_count = rc], wait)
                           ELSE ErrorResult([s EXCEPT !.retry_count = rc],
                                            "LLM API call failed after retries in localization")
                      ELSE ErrorResult([s EXCEPT !.retry_count = rc],
                                       "LLM API call failed in localization phase"))

Last(q) == q[Len(q)]

\* tool_results = tool_runtime.handle_tool_calls(msg.tool_calls); extend; truncate
LocalizeTools ==
    /\ pc = "loc_tools"
    /\ \E o \in env.tool, d \in env.durs_tool :
         /\ elapsed + d <= MaxElapsed
         /\ LET s == Call(Cur, "tools", d)
                a == Last(messages)
                tr == LocalizeTruncate(messages \o ToolResults(a.id, a.n), tool_call_count)
            IN Commit(IF o = "raise" THEN Raise(s, "tool")
                      ELSE Polled(Truncated([s EXCEPT
                              !.symbol_blocks_read = IF env.symbol_reads THEN @ + a.n ELSE @,
                              !.messages = tr.msgs, !.tool_call_count = tr.tcc,
                              !.pc = "loc_top"], "localize", tr)))

(***************************************************************************)
(* Patch phase: feedback, stop rules, gates.                               *)
(***************************************************************************)
\* git reset --hard HEAD
ResetWorkdir(s) == [s EXCEPT !.workdir_state = "clean"]

\* apply_edits / git apply wrote the candidate or the patch into the tree
WroteWorkdir(s) ==
    [s EXCEPT !.workdir_state = "applied",
              !.hist = [@ EXCEPT !.applied_on_leftover = @ \/ s.workdir_state = "leftover"]]

\* apply_edits wrote some files and then reported an error
LeftInWorkdir(s) == [s EXCEPT !.workdir_state = "leftover"]

NotSummary(m) == ~(m.role = "user" /\ m.tag = "PATCH_FAIL_SUMMARY")
SummaryMsg(fail_type, repeat) ==
    [role |-> "user", tag |-> "PATCH_FAIL_SUMMARY", id |-> 0, n |-> repeat, info |-> fail_type]

\* the summary installed, the direct-patch counter left as it is
summary_keeps_direct_count(s, fail_type, sig) ==
    LET short == sig_short(sig)
        repeat == IF fail_type = s.last_fail_type /\ short = s.last_fail_sig
                  THEN s.repeated_fail_count + 1 ELSE 1
    IN [s EXCEPT
          !.repeated_fail_count = repeat,
          !.last_fail_type = fail_type,
          !.last_fail_sig = short,
          !.patch_messages = Append(SelectSeq(@, NotSummary), SummaryMsg(fail_type, repeat)),
          !.hist = [@ EXCEPT !.sigs = Append(@, [type |-> fail_type, sig |-> short,
                                                 repeat |-> repeat])]]

\* the summary appended, the earlier ones left in place
append_patch_fail_summary(s, fail_type, sig) ==
    LET short == sig_short(sig)
        repeat == IF fail_type = s.last_fail_type /\ short = s.last_fail_sig
                  THEN s.repeated_fail_count + 1 ELSE 1
    IN [s EXCEPT
          !.repeated_fail_count = repeat,
          !.last_fail_type = fail_type,
          !.last_fail_sig = short,
          !.patch_messages = Append(@, SummaryMsg(fail_type, repeat)),
          !.consecutive_direct_patches = 0,
          !.hist = [@ EXCEPT !.sigs = Append(@, [type |-> fail_type, sig |-> short,
                                                 repeat |-> repeat])]]

\* the summary installed in the localize conversation as well
summary_into_messages(s, fail_type, sig) ==
    LET short == sig_short(sig)
        repeat == IF fail_type = s.last_fail_type /\ short = s.last_fail_sig
                  THEN s.repeated_fail_count + 1 ELSE 1
    IN [s EXCEPT
          !.repeated_fail_count = repeat,
          !.last_fail_type = fail_type,
          !.last_fail_sig = short,
          !.patch_messages = Append(SelectSeq(@, NotSummary), SummaryMsg(fail_type, repeat)),
          !.messages = Append(SelectSeq(@, NotSummary), SummaryMsg(fail_type, repeat)),
          !.consecutive_direct_patches = 0,
          !.hist = [@ EXCEPT !.sigs = Append(@, [type |-> fail_type, sig |-> short,
                                                 repeat |-> repeat])]]

_set_patch_fail_summary(s, fail_type, sig) ==
    LET short == sig_short(sig)
        repeat == IF fail_type = s.last_fail_type /\ short = s.last_fail_sig
                  THEN s.repeated_fail_count + 1 ELSE 1
    IN [s EXCEPT
          !.repeated_fail_count = repeat,
          !.last_fail_type = fail_type,
          !.last_fail_sig = short,
          !.patch_messages = Append(SelectSeq(@, NotSummary), SummaryMsg(fail_type, repeat)),
          !.consecutive_direct_patches = 0,
          !.hist = [@ EXCEPT !.sigs = Append(@, [type |-> fail_type, sig |-> short,
                                                 repeat |-> repeat])]]

_should_stop_due_to_repeat(s) ==
    IF s.last_fail_type = "format_error"
    THEN s.repeated_fail_count >= FormatRepeatStop
    ELSE s.repeated_fail_count >= OtherRepeatStop

\* break out of the patch loop: the for loop goes to its next iteration
Break(s) == [s EXCEPT !.pc = "iter", !.it = @ + 1]
\* continue the patch loop
Continue(s) == [s EXCEPT !.pc = "patch_top"]

\* if _should_stop_due_to_repeat(): break / continue
StopCheck(s) == IF _should_stop_due_to_repeat(s) THEN Break(s) ELSE Continue(s)

\* if tool_call_count < max_tool_calls_per_patch: (stop check) else: break
BudgetStopCheck(s) ==
    IF s.tool_call_count < cfg.max_tool_calls_per_patch THEN StopCheck(s) ELSE Break(s)

CompileGate == cfg.enable_patch_compile_gate /\ cfg.use_compile_gate
CanonGate ==
    cfg.enable_patch_compile_gate /\ cfg.use_canonical_diff
    /\ "get_git_diff" \in func_map(cfg, env)
GreenGate ==
    cfg.enable_tdd_gate /\ cfg.verify_green_test /\ "verify_green" \in func_map(cfg, env)

\* on to GREEN or the full validation with last_patch as it was
AfterCanonKeepsLastPatch(s) ==
    [s EXCEPT !.pc = IF GreenGate THEN "green" ELSE "validate"]

\* last_patch = patch_text, then GREEN or the full validation
AfterCanon(s) ==
    [s EXCEPT !.last_patch = s.patch_text,
              !.pc = IF GreenGate THEN "green" ELSE "validate"]

AfterCompile(s) == IF CanonGate THEN [s EXCEPT !.pc = "canon"] ELSE AfterCanon(s)

\* ap["ok"]: reset the failure count, count the success, go to the compile gate
ApplyOk(s) ==
    LET s1 == [s EXCEPT !.git_apply_fail_count = 0,
                        !.metrics = [@ EXCEPT !.apply_success_count = @ + 1]]
    IN IF CompileGate /\ "check_compile" \in func_map(cfg, env)
       THEN [s1 EXCEPT !.pc = "compile"]
       ELSE AfterCompile(s1)

\* not ap["ok"]: err is what ap["error"] says
ApplyFailed(s, err) ==
    LET s1 == [s EXCEPT !.git_apply_fail_count = @ + 1,
                        !.metrics = [@ EXCEPT !.git_apply_failures = @ + 1]]
    IN IF s1.git_apply_fail_count >= cfg.max_git_apply_failures THEN Break(s1)
       ELSE IF err = "workdir_not_found"
       THEN Finish(s1, ReturnedBare(Err("Workdir not found: {error}"), s.it))
       ELSE BudgetStopCheck(_set_patch_fail_summary(s1,
                IF err = "check_failed_format" THEN "format_error" ELSE "apply_error",
                Sig(err, 0, FALSE)))

\* the apply section without the count of the attempt
ApplySectionUncounted(s) ==
    IF s.patch_already_applied THEN ApplyOk(s)
    ELSE IF s.patch_text = NoPatch THEN ApplyFailed(s, "patch_text_none")
    ELSE IF s.patch_text.fmt # "diff" THEN Break(s)
    ELSE [s EXCEPT !.pc = "apply"]

\* from apply_attempt_count += 1 up to the call of apply_patch_fn
ApplySection(s) ==
    LET s1 == [s EXCEPT !.metrics = [@ EXCEPT !.apply_attempt_count = @ + 1]]
    IN IF s.patch_already_applied THEN ApplyOk(s1)
       ELSE IF s.patch_text = NoPatch THEN ApplyFailed(s1, "patch_text_none")
       ELSE IF s.patch_text.fmt # "diff" THEN Break(s1)
       ELSE [s1 EXCEPT !.pc = "apply"]

\* the patch loop without its API budget
PatchApiBudgetIgnored(s) == FALSE

\* if patch_phase_api_count >= max_patch_phase_api_calls:
PatchApiBudgetSpent(s) == s.patch_phase_api_count >= cfg.max_patch_phase_api_calls

\* top of the patch while loop: clock check, API budget, direct-patch guard
PatchTop ==
    /\ pc = "patch_top"
    /\ Commit(IF TimedOut(Cur)
              THEN TimeoutResult(Cur, "during patch generation")
              ELSE IF PatchApiBudgetSpent(Cur)
              THEN Break(Cur)
              ELSE IF consecutive_direct_patches >= cfg.max_consecutive_direct_patches
              THEN Break(Cur)
              ELSE [Cur EXCEPT !.patch_phase_api_count = @ + 1, !.retry_count = 0,
                               !.pc = "patch_llm"])

\* validate_unified_diff(patch_text): the reply carries the verdict on its text
validate_unified_diff(o) == [ok |-> o.kind = "diff_ok", detail |-> Sig(o.diag, 0, FALSE)]

is_json_format(o) == o.kind \in {"json_edits", "json_nocand", "json_empty"}

\* format enforcement switched off
FormatEnforcementOff(s, o) == FALSE

\* if force_structured_edits and not is_json_format:
FormatEnforced(s, o) == s.force_structured_edits /\ ~is_json_format(o)

\* the flag set one recorded repeat earlier
ForceAfterFirstRepeat(s) ==
    ~s.force_structured_edits /\ s.repeated_fail_count >= ForceAfterRepeats - 1

\* if not force_structured_edits and repeated_fail_count >= 2:
ShouldForceStructuredEdits(s) ==
    ~s.force_structured_edits /\ s.repeated_fail_count >= ForceAfterRepeats

\* the code from "LLM returned patch" to the next call, for the reply o
DirectPatch(s0, o) ==
    LET id == s0.metrics.patch_attempts + 1
        s == [s0 EXCEPT
                !.metrics = [@ EXCEPT !.patch_attempts = @ + 1],
                !.consecutive_direct_patches = @ + 1,
                !.patch_already_applied = FALSE,
                !.hist = [@ EXCEPT !.attempts = Append(@, o), !.via_apply_edits = FALSE,
                                   !.cand_results = << >>]]
    IN IF o.kind = "empty"
       THEN StopCheck(_set_patch_fail_summary(s, "format_error", Sig("empty_patch", 0, FALSE)))
       ELSE IF FormatEnforced(s, o)
       THEN StopCheck(_set_patch_fail_summary(s, "format_error",
                                              Sig("expected_structured_edits_json", 0, FALSE)))
       ELSE IF o.kind = "json_edits"
       THEN IF env.workdir_known /\ "apply_edits" \in func_map(cfg, env)
            THEN [s EXCEPT !.patch_text = LlmJson(id),
                           !.cand = [n |-> o.n, idx |-> 1, errors |-> 0],
                           !.pc = "cand_apply"]
            ELSE BudgetStopCheck(_set_patch_fail_summary(s, "format_error",
                                   Sig("structured_edits_tool_unavailable", 0, FALSE)))
       ELSE IF o.kind = "json_nocand"
       THEN IF env.workdir_known /\ "apply_edits" \in func_map(cfg, env)
            THEN BudgetStopCheck(_set_patch_fail_summary(s, "format_error",
                                   Sig("No valid patch candidates found", 0, FALSE)))
            ELSE BudgetStopCheck(_set_patch_fail_summary(s, "format_error",
                                   Sig("structured_edits_tool_unavailable", 0, FALSE)))
       ELSE IF o.kind = "json_empty"
       THEN ApplySection([s EXCEPT !.patch_text = LlmJson(id)])
       ELSE IF cfg.use_unified_diff /\ ~validate_unified_diff(o).ok
       THEN LET flip == ShouldForceStructuredEdits(s)
                s1 == IF flip
                      THEN [s EXCEPT !.force_structured_edits = TRUE,
                                     !.hist = [@ EXCEPT !.forced_it = s.it,
                                                        !.force_at = Len(s.hist.attempts),
                                                        !.force_prev = s.hist.sigs]]
                      ELSE s
            IN StopCheck(_set_patch_fail_summary(s1, "format_error",
                                                 validate_unified_diff(o).detail))
       ELSE ApplySection([s EXCEPT !.patch_text =
                             IF o.kind = "diff_ok" THEN LlmDiff(id) ELSE LlmText(id)])

\* the number of failures at the end of q that recorded the same type and
\* the same first 200 characters of the signature as the last one
RECURSIVE SameFailures(_)
SameFailures(q) ==
    IF Len(q) <= 1 THEN Len(q)
    ELSE IF q[Len(q) - 1].type = q[Len(q)].type /\ q[Len(q) - 1].sig = q[Len(q)].sig
    THEN 1 + SameFailures(SubSeq(q, 1, Len(q) - 1))
    ELSE 1

\* the patch loop sends a request: which failure it repeats beyond the limit
AskedAfter(s) ==
    LET q == s.hist.sigs
        limit == IF Last(q).type = "format_error" THEN FormatRepeatStop ELSE OtherRepeatStop
    IN IF Len(q) > 0 /\ SameFailures(q) >= limit
       THEN [s EXCEPT !.hist = [@ EXCEPT !.asked_after = @ \cup {Last(q).type}]]
       ELSE s

\* one request of the patch loop (tool_choice="auto") and what follows it
PatchLLM ==
    /\ pc = "patch_llm"
    /\ \E o \in env.patch_replies \cup env.llm_errors, d \in env.durs_llm :
         LET s == Answered(AskedAfter(Call(Cur, "llm", d)), o, "patch")
             rc == retry_count + 1
             wait == _retry_wait_seconds(rc, 2, o)
             counted == [s EXCEPT !.metrics =
                            CountApiCall(@, "patch_api_calls", retry_count = 0)]
             gave_up == IF s.tool_call_count < cfg.max_tool_calls_per_patch - 1
                        THEN Continue([s EXCEPT !.retry_count = rc])
                        ELSE Break([s EXCEPT !.retry_count = rc])
         IN /\ elapsed + d + (IF IsApiError(o) THEN wait ELSE 0) <= MaxElapsed
            /\ Commit(IF o.kind = "tools"
                      THEN [counted EXCEPT
                              !.tool_call_count = @ + o.n,
                              !.metrics = [@ EXCEPT !.patch_tool_calls = @ + o.n,
                                                    !.total_tool_calls = @ + o.n],
                              !.consecutive_direct_patches = 0,
                              !.patch_messages = Append(@, AssistantMsg(s.nextId, o.n)),
                              !.nextId = @ + 1, !.pc = "patch_tools"]
                      ELSE IF ~IsApiError(o) THEN DirectPatch(counted, o)
                      ELSE IF _is_fatal_stop_immediately(o)
                      THEN Finish(s, _make_error_result("LLM credits/quota exhausted",
                                                        it, NoPatch, s.elapsed))
                      ELSE IF (is_rate_limit(o) \/ is_temporary(o)) /\ rc < max_retries
                      THEN Sleep([s EXCEPT !.retry_count = rc], wait)
                      ELSE gave_up)

\* tool_results = tool_runtime.handle_tool_calls(patch_msg.tool_calls); extend; truncate
PatchTools ==
    /\ pc = "patch_tools"
    /\ \E o \in env.tool, d \in env.durs_tool :
         /\ elapsed + d <= MaxElapsed
         /\ LET s == Call(Cur, "tools", d)
                a == Last(patch_messages)
                tr == PatchTruncate(patch_messages \o ToolResults(a.id, a.n), tool_call_count)
            IN Commit(IF o = "raise" THEN Raise(s, "tool")
                      ELSE Polled(Truncated([s EXCEPT !.patch_messages = tr.msgs,
                                                      !.tool_call_count = tr.tcc,
                                                      !.pc = "patch_top"], "patch", tr)))

(***************************************************************************)
(* Structured edits: the candidate loop.                                   *)
(***************************************************************************)
SanityGate ==
    CompileGate /\ (env.adapter \/ "check_compile" \in func_map(cfg, env))
SecondCompile == CompileGate /\ "check_compile" \in func_map(cfg, env)

\* how the candidate in turn ended
CandResult(s, r) == [s EXCEPT !.hist = [@ EXCEPT !.cand_results = Append(@, r)]]

\* patch_applied = True; break: the candidate goes on to the apply section
CandidateAccepted(s) == ApplySection(CandResult(s, "accepted"))

\* if not patch_applied: (all candidates failed)
AllCandidatesFailed(s) ==
    IF s.cand.errors > 0
    THEN LET s1 == [s EXCEPT !.compile_fail_count = @ + 1,
                             !.metrics = [@ EXCEPT !.compile_failures = @ + 1],
                             !.hist = [@ EXCEPT !.compile_rejected = @ + 1]]
         IN IF s1.compile_fail_count >= cfg.max_compile_failures THEN Break(s1)
            ELSE IF s1.tool_call_count < cfg.max_tool_calls_per_patch
            THEN StopCheck(_set_patch_fail_summary(s1, "compile_error",
                                                   Sig("compile_errors", s.cand.errors, TRUE)))
            ELSE ApplySection(s1)
    ELSE BudgetStopCheck(_set_patch_fail_summary(s, "candidate_error",
                                                 Sig("candidates_failed", s.cand.n, FALSE)))

\* continue in "for candidate_idx, candidate in enumerate(patch_candidates, 1)"
NextCandidate(s) ==
    IF s.cand.idx < s.cand.n
    THEN [s EXCEPT !.cand = [@ EXCEPT !.idx = @ + 1], !.pc = "cand_apply"]
    ELSE AllCandidatesFailed(s)

\* a compile failure of the candidate: collect, reset, continue
CandidateCompileFailed(s) ==
    NextCandidate(CandResult(ResetWorkdir([s EXCEPT !.cand = [@ EXCEPT !.errors = @ + 1],
                                                    !.patch_text = NoPatch,
                                                    !.patch_already_applied = FALSE]),
                             "compile_failed"))

\* apply_result = tool_runtime.func_map["apply_edits"](candidate_edits_json)
CandApply ==
    /\ pc = "cand_apply"
    /\ \E o \in env.edits, d \in env.durs :
         /\ elapsed + d <= MaxElapsed
         /\ LET s == [Call(Cur, "apply_edits", d) EXCEPT
                        !.hist = [@ EXCEPT !.via_apply_edits = TRUE]]
            IN Commit(CASE o = "ok" ->
                             [WroteWorkdir(s) EXCEPT !.patch_already_applied = TRUE,
                                                     !.pc = "cand_diff"]
                        [] o = "unchanged" ->
                             NextCandidate(CandResult(ResetWorkdir(s), "no_files"))
                        [] o = "partial" ->
                             NextCandidate(CandResult(LeftInWorkdir(s), "apply_failed"))
                        [] OTHER -> NextCandidate(CandResult(s, "apply_failed")))

\* diff_result = tool_runtime.func_map["get_git_diff"]()     (candidate loop)
CandDiff ==
    /\ pc = "cand_diff"
    /\ \E o \in env.diff, d \in env.durs :
         /\ elapsed + d <= MaxElapsed
         /\ LET s == Call(Cur, "get_git_diff", d)
                s1 == [s EXCEPT !.patch_text = GitDiff(s.metrics.patch_attempts)]
            IN Commit(IF o # "changes"
                      THEN NextCandidate(CandResult(
                               ResetWorkdir([s EXCEPT !.patch_already_applied = FALSE]),
                               "empty_diff"))
                      ELSE IF SanityGate THEN [s1 EXCEPT !.pc = "cand_sanity"]
                      ELSE IF SecondCompile THEN [s1 EXCEPT !.pc = "cand_compile"]
                      ELSE CandidateAccepted(s1))

\* the sanity compile of a candidate (inside try / except Exception)
CandSanity ==
    /\ pc = "cand_sanity"
    /\ \E o \in env.compile, d \in env.durs :
         /\ elapsed + d <= MaxElapsed
         /\ LET s == Call(Cur, "check_compile", d)
            IN Commit(IF o # "ok" THEN CandidateCompileFailed(s)
                      ELSE IF SecondCompile THEN [s EXCEPT !.pc = "cand_compile"]
                      ELSE CandidateAccepted(s))

\* the compile-gate check of a candidate
CandCompile ==
    /\ pc = "cand_compile"
    /\ \E o \in env.compile, d \in env.durs :
         /\ elapsed + d <= MaxElapsed
         /\ LET s == [Call(Cur, "check_compile", d) EXCEPT
                        !.metrics = [@ EXCEPT !.compile_attempt_count = @ + 1]]
            IN Commit(CASE o = "raise" -> Raise(s, "check_compile")
                        [] o = "ok" ->
                             CandidateAccepted([s EXCEPT !.metrics =
                                 [@ EXCEPT !.compile_success_count = @ + 1]])
                        [] OTHER -> CandidateCompileFailed(s))

(***************************************************************************)
(* Apply, compile gate, canonical diff, GREEN, validation.                 *)
(***************************************************************************)
\* the workdir check, its recovery, and ap = apply_patch_fn(patch_text)
Apply ==
    /\ pc = "apply"
    /\ \E w \in env.workdir, o \in env.apply, d \in env.durs :
         /\ elapsed + d <= MaxElapsed
         /\ LET s0 == Call(Cur, IF w = "lost" THEN "checkout" ELSE "apply_patch_fn", d)
                s == IF w = "lost" THEN s0
                     ELSE [s0 EXCEPT !.hist = [@ EXCEPT
                             !.apply_ok = (o = "ok"),
                             !.diff_after_force =
                                 IF hist.forced_it > 0 THEN it ELSE @,
                             !.diff_while_forced = @ \/ force_structured_edits]]
            IN Commit(CASE w = "lost" -> ApplyFailed(s, "workdir_not_found")
                        [] w = "recovered" /\ o = "raise" -> ApplyFailed(s, "workdir_not_found")
                        [] w = "present" /\ o = "raise" -> Raise(s, "apply_patch_fn")
                        [] w # "lost" /\ o = "ok" -> ApplyOk(WroteWorkdir(s))
                        [] w # "lost" /\ o = "other" -> ApplyFailed(ResetWorkdir(s), o)
                        [] OTHER -> ApplyFailed(s, o))

\* the standalone compile gate: workdir check, check_compile()
Compile ==
    /\ pc = "compile"
    /\ \E w \in env.workdir, o \in env.compile, d \in env.durs :
         /\ elapsed + d <= MaxElapsed
         /\ LET s0 == Call(Cur, IF w = "lost" THEN "checkout" ELSE "check_compile", d)
                s == [s0 EXCEPT !.metrics = [@ EXCEPT !.compile_attempt_count = @ + 1]]
                f == ResetWorkdir([s EXCEPT !.compile_fail_count = @ + 1,
                                            !.hist = [@ EXCEPT !.compile_rejected = @ + 1]])
            IN Commit(CASE w = "lost" ->
                             Finish(s0, ReturnedBare(
                                 Err("Workdir not found during compilation: {error}"), it))
                        [] w # "lost" /\ o = "raise" -> Raise(s, "check_compile")
                        [] w # "lost" /\ o = "ok" ->
                             AfterCompile([s EXCEPT !.metrics =
                                              [@ EXCEPT !.compile_success_count = @ + 1]])
                        [] OTHER ->
                             IF f.compile_fail_count >= cfg.max_compile_failures THEN Break(f)
                             ELSE IF f.tool_call_count < cfg.max_tool_calls_per_patch
                             THEN StopCheck(_set_patch_fail_summary(f, "compile_error",
                                                Sig("compile_failed", 0, FALSE)))
                             ELSE Break(f))

\* the canonical diff: diff_result = tool_runtime.func_map["get_git_diff"]()
Canon ==
    /\ pc = "canon"
    /\ \E o \in env.diff, d \in env.durs :
         /\ elapsed + d <= MaxElapsed
         /\ LET s == Call(Cur, "get_git_diff", d)
            IN Commit(AfterCanon(IF o = "changes"
                                 THEN [s EXCEPT !.patch_text = GitDiff(s.metrics.patch_attempts)]
                                 ELSE s))

\* a GREEN gate that lets every result through
green_never_rejects(r) == FALSE

\* green_rc = green_result.get("rc"); if green_rc != 0:
green_rejects(r) == ~r.has_rc \/ r.rc # 0

\* green_result = verify_green_fn(), the clock check after it, the rc test
Green ==
    /\ pc = "green"
    /\ \E r \in env.green, d \in env.durs_test :
         /\ elapsed + d <= MaxElapsed
         /\ LET s0 == [Call(Cur, "verify_green", d) EXCEPT
                         !.hist = [@ EXCEPT !.green =
                                      IF r.kind = "raise" THEN @
                                      ELSE [n |-> @.n + 1, r |-> r, patch |-> last_patch]]]
                s == Polled(s0)
            IN Commit(CASE r.kind = "raise" -> Raise(s0, "verify_green")
                        [] r.kind # "raise" /\ TimedOut(s) ->
                             TimeoutResult(s, "after GREEN test execution")
                        [] r.kind # "raise" /\ ~TimedOut(s) /\ green_rejects(r) ->
                             Continue(ResetWorkdir(_set_patch_fail_summary(s, "green_failed",
                                 Sig("rc;test", IF r.has_rc THEN r.rc ELSE 0 - 1, FALSE))))
                        [] OTHER ->
                             [s EXCEPT !.metrics = [@ EXCEPT !.tdd_gate_green_verified = TRUE],
                                       !.pc = "validate"])

\* the verdict with every outcome but an exception taken as passed
validation_passed_unless_raised(o) == o # "raise"

\* passed = validation_result.get("passed", False); an exception gives
\* validation_result = {"passed": False, ...}
validation_passed(o) == o = "passed"

\* validation_result = validate_fn(last_patch) in try/except, the clock check
\* after it, and the verdict
Validate ==
    /\ pc = "validate"
    /\ \E o \in env.validate, d \in env.durs_test :
         /\ elapsed + d <= MaxElapsed
         /\ LET s0 == Polled(Call(Cur, "validate", d))
                passed == validation_passed(o)
                s1 == [s0 EXCEPT
                         !.hist = [@ EXCEPT !.validate =
                                      [n |-> @.n + 1, outcome |-> o, late |-> TimedOut(s0),
                                       it |-> it, patch |-> last_patch,
                                       green |-> hist.green.patch]],
                         !.metrics = IF o = "raise"
                                     THEN [@ EXCEPT !.validation_failures = @ + 1] ELSE @]
                f == [s1 EXCEPT !.metrics = [@ EXCEPT !.validation_failures = @ + 1]]
            IN Commit(IF TimedOut(s1)
                      THEN TimeoutResult(s1, "after full test validation")
                      ELSE IF passed
                      THEN Finish(s1, Returned(TRUE, NoError, it, last_patch, s1.elapsed))
                      ELSE Continue(ResetWorkdir(_set_patch_fail_summary(f, "validation_failed",
                               Sig(IF o = "raise" THEN "validation_exception"
                                   ELSE "validation_result", 0, TRUE)))))

(***************************************************************************)
(* ToolRuntime.handle_tool_calls and the tool-call cache.                  *)
(***************************************************************************)
\* tc.function.arguments, a text known by what json.loads makes of it: an
\* object (its content and the order its keys are written in), an array, or
\* a text that stays unparseable after the repair
ArgsText(form, body, order) == [form |-> form, body |-> body, order |-> order]

\* args = json.loads(args_str), the repair, and the fallback args = {}
json_loads(a) ==
    CASE a.form = "object" -> [kind |-> "dict", body |-> a.body, order |-> a.order]
      [] a.form = "array" -> [kind |-> "list", body |-> a.body, order |-> a.order]
      [] OTHER -> [kind |-> "dict", body |-> "empty", order |-> 0]

\* json.dumps(args, sort_keys=True): the order of the keys is gone
json_dumps_sorted(args) == [kind |-> args.kind, body |-> args.body]

get_cache_key(func_name, args) == [name |-> func_name, args |-> json_dumps_sorted(args)]

\* a tool result: {"ok": ..., ...} and the "_cached" mark
ToolResult(ok, val, error) == [ok |-> ok, val |-> val, error |-> error, _cached |-> FALSE]
NoResult == ToolResult(FALSE, 0, "None")
NotAvailable == ToolResult(FALSE, 0, "Tool is not available in the current phase.")

get_cached_result(cache, func_name, args) ==
    LET hits == {e \in cache : e.key = get_cache_key(func_name, args)}
    IN IF hits = {} THEN NoResult
       ELSE [(CHOOSE e \in hits : TRUE).result EXCEPT !._cached = TRUE]

\* every function cached
cache_every_function == {"read_file", "read_span", "symbol_lookup", "find_references",
                         "search_in_files", "apply_patch", "apply_edits", "get_git_diff",
                         "check_compile", "verify_red", "verify_green"}

cacheable_functions == {"read_file", "read_span", "symbol_lookup", "find_references"}

cache_tool_result(cache, func_name, args, res) ==
    IF func_name \in cacheable_functions /\ res.ok
    THEN {e \in cache : e.key # get_cache_key(func_name, args)}
         \cup {[key |-> get_cache_key(func_name, args), result |-> res]}
    ELSE cache

\* localize_tool_schemas: the tools the LLM is offered (both phases pass it)
tools_schema(c) ==
    {"read_file", "search_in_files"}
    \cup (IF c.enable_index_retrieval
          THEN {"symbol_lookup", "find_references", "read_span"} ELSE {})

\* self.func_map[name](**args) binds: args is a mapping and the callable's
\* signature takes its keywords ("empty" is {}, any other body stands for the
\* keywords the tool declares)
Binds(name, args) ==
    /\ args.kind = "dict"
    /\ CASE name \in {"read_file", "search_in_files", "symbol_lookup", "find_references",
                      "read_span", "apply_patch"} -> args.body # "empty"
         [] name \in {"get_git_diff", "check_compile"} -> args.body = "empty"
         [] OTHER -> TRUE

ToolMessage(tc, res) ==
    [role |-> "tool", tool_call_id |-> tc.id, name |-> tc.name, content |-> res]

\* one turn of "for tc in tool_calls:", the callable answering ok or not
HandleToolCall(st, tc, ok) ==
    LET args == json_loads(tc.arguments)
        cached_result == get_cached_result(st.cache, tc.name, args)
        fresh == ToolResult(ok, tc.arguments.order, "")
        same == {o \in st.oks : o.name = tc.name /\ o.kind = args.kind /\ o.body = args.body}
        seen == [name |-> tc.name, how |-> "", res |-> NoResult, seen_ok |-> same # {},
                 stored |-> IF same = {} THEN NoResult ELSE (CHOOSE o \in same : TRUE).result]
        done(how, res) ==
            [st EXCEPT !.tool_messages = Append(@, ToolMessage(tc, res)),
                       !.calls = Append(@, [seen EXCEPT !.how = how, !.res = res])]
    IN IF tc.name \notin func_map(cfg, env)
       THEN done("unavailable", NotAvailable)
       ELSE IF cached_result # NoResult
       THEN done("cached", cached_result)
       ELSE IF ~Binds(tc.name, args)
       THEN [st EXCEPT !.pc = "raised", !.tool_messages = << >>,
                       !.calls = Append(@, [seen EXCEPT !.how = "raised"])]
       ELSE [done("executed", fresh) EXCEPT
               !.cache = cache_tool_result(@, tc.name, args, fresh),
               !.oks = IF ok
                       THEN (@ \ same) \cup {[name |-> tc.name, kind |-> args.kind,
                                               body |-> args.body, result |-> fresh]}
                       ELSE @]

\* handle_tool_calls(tool_calls) from its i-th call on
RECURSIVE handle_tool_calls(_, _, _, _)
handle_tool_calls(st, tool_calls, oks, i) ==
    IF st.pc = "raised" THEN st
    ELSE IF i > Len(tool_calls) THEN [st EXCEPT !.pc = "returned"]
    ELSE handle_tool_calls(HandleToolCall(st, tool_calls[i], oks[i]), tool_calls, oks, i + 1)

\* the tool calls of one assistant message
ToolCalls(n) ==
    { [i \in 1..n |-> [id |-> i, name |-> f[i].name, arguments |-> f[i].arguments]] :
        f \in [1..n -> [name : env.tool_names, arguments : env.tool_args]] }

\* tool_results = tool_runtime.handle_tool_calls(msg.tool_calls)
HandleToolCalls ==
    /\ runtime.pc = "idle"
    /\ \E n \in 1..MaxBatch :
         \E tool_calls \in ToolCalls(n), oks \in [1..n -> BOOLEAN] :
            runtime' = handle_tool_calls([runtime EXCEPT !.batch = tool_calls],
                                         tool_calls, oks, 1)
    /\ UNCHANGED << cfg, env, loop_vars, fn_io >>

\* messages.extend(tool_results): the loop takes the messages over
ExtendMessages ==
    /\ runtime.pc = "returned"
    /\ runtime' = [runtime EXCEPT !.pc = "idle", !.batch = << >>,
                                  !.tool_messages = << >>, !.calls = << >>]
    /\ UNCHANGED << cfg, env, loop_vars, fn_io >>

\* the next run of the process: clear_cache() and a new ToolRuntime
StartRun ==
    /\ runtime.pc \in {"idle", "raised"}
    /\ runtime' = Runtime0
    /\ UNCHANGED << cfg, env, loop_vars, fn_io >>

(***************************************************************************)
(* Runs.  A run fixes the configuration and what the collaborators (LLM,   *)
(* tools, adapter) may answer; every action draws its inputs from env.     *)
(***************************************************************************)
QuietEnv ==
    [ adapter |-> TRUE, index_exists |-> TRUE, patch_context |-> FALSE,
      workdir_known |-> TRUE, symbol_reads |-> FALSE,
      harness |-> {"ok"}, compile |-> {"ok"},
      red |-> {TestResult("ret", TRUE, TRUE, 1)},
      green |-> {TestResult("ret", TRUE, TRUE, 0)},
      validate |-> {"passed"}, apply |-> {"ok"}, workdir |-> {"present"},
      edits |-> {"ok"}, diff |-> {"changes"}, tool |-> {"ok"},
      loc_replies |-> {Out("plain", 0, "")}, patch_replies |-> {Out("diff_ok", 0, "")},
      llm_errors |-> {}, durs |-> {0}, durs_llm |-> {0}, durs_tool |-> {0},
      durs_test |-> {0},
      tool_names |-> {"read_file"}, tool_args |-> {ArgsText("object", "a", 1)} ]

\* Conversations: free tool rounds while localizing and a short patch phase;
\* one call per round while localizing and a long patch phase; two iterations,
\* so that the second localization extends the first one's messages
ConvRuns ==
    { [cfg |-> RunConfig("G0", 1, ConvLocBudget, ConvPatchShort, ConvBudget),
       env |-> [QuietEnv EXCEPT
                  !.loc_replies = {Out("tools", 1, ""), Out("tools", 2, ""),
                                   Out("tools", BigBatch, ""), Out("plain", 0, "")},
                  !.patch_replies = {Out("tools", 1, ""), Out("empty", 0, "")}]],
      [cfg |-> RunConfig("G0", 1, ConvLocBudget, ConvPatchLong, ConvBudget),
       env |-> [QuietEnv EXCEPT
                  !.loc_replies = {Out("tools", 1, ""), Out("plain", 0, "")},
                  !.patch_replies = {Out("tools", 1, ""), Out("tools", 2, ""),
                                     Out("empty", 0, "")}]],
      [cfg |-> RunConfig("G0", 2, ConvLocBudget, ConvPatchShort, ConvBudget),
       env |-> [QuietEnv EXCEPT
                  !.loc_replies = {Out("tools", 1, ""), Out("plain", 0, "")},
                  !.patch_replies = {Out("tools", 2, ""), Out("empty", 0, "")}]],
      \* G2: the index hint moves the first assistant out of the kept head, and
      \* PATCH_CONTEXT lengthens the patch conversation
      [cfg |-> RunConfig("G2", 1, ConvLocBudget, ConvPatchShort, ConvBudget),
       env |-> [QuietEnv EXCEPT
                  !.patch_context = TRUE,
                  !.loc_replies = {Out("tools", 1, ""), Out("tools", 2, ""),
                                   Out("tools", BigBatch, ""), Out("plain", 0, "")},
                  !.patch_replies = {Out("tools", 1, ""), Out("empty", 0, "")}]] }

InitConv == \E r \in ConvRuns : InitWith(r.cfg, r.env)

NextConv ==
    \/ Harness
    \/ IterStart
    \/ LocalizeTop
    \/ LocalizeLLM
    \/ LocalizeForcedLLM
    \/ LocalizeTools
    \/ PatchTop
    \/ PatchLLM
    \/ PatchTools

SpecConv == InitConv /\ [][NextConv]_vars

\* the conversation is well formed: every assistant message with N >= 1 tool
\* calls is directly followed by its N tool messages in call order, and every
\* tool message belongs to such a run
WellFormed(q) ==
    \A i \in 1..Len(q) :
      /\ HasToolCalls(q[i]) =>
           /\ i + q[i].n <= Len(q)
           /\ \A k \in 1..q[i].n : q[i + k] = ToolMsg(q[i].id, k)
      /\ q[i].role = "tool" =>
           /\ i - q[i].n >= 1
           /\ HasToolCalls(q[i - q[i].n])
           /\ q[i - q[i].n].id = q[i].id
           /\ q[i].n <= q[i - q[i].n].n

(***************************************************************************)
(* The whole loop under failing collaborators.                             *)
(***************************************************************************)
RedOutcomes ==
    { TestResult("ret", TRUE, TRUE, 1), TestResult("ret", TRUE, TRUE, 0),
      TestResult("ret", TRUE, TRUE, 2), TestResult("ret", TRUE, TRUE, 4),
      TestResult("ret", TRUE, TRUE, 0 - 1), TestResult("ret", TRUE, TRUE, 255),
      TestResult("ret", TRUE, FALSE, 0), TestResult("ret", FALSE, TRUE, 1),
      TestResult("raise", FALSE, FALSE, 0) }

\* what verify_red answers when the test infrastructure is broken
RedInfraOutcomes ==
    { TestResult("ret", FALSE, TRUE, 0 - 1), TestResult("ret", TRUE, TRUE, 0 - 1),
      TestResult("ret", TRUE, FALSE, 0), TestResult("ret", TRUE, TRUE, 255) }

FailingEnv ==
    [QuietEnv EXCEPT
       !.symbol_reads = TRUE,
       !.harness = {"ok", "fail", "raise"},
       !.compile = {"ok", "fail", "raise"},
       !.red = RedOutcomes,
       !.green = {TestResult("ret", TRUE, TRUE, 0), TestResult("ret", TRUE, TRUE, 1),
                  TestResult("raise", FALSE, FALSE, 0)},
       !.validate = {"passed", "failed", "raise"},
       !.apply = {"ok", "check_failed_format", "check_failed_apply", "other", "raise"},
       !.workdir = {"present", "recovered", "lost"},
       !.edits = {"ok", "fail"},
       !.diff = {"changes", "none"},
       !.tool = {"ok", "raise"},
       !.loc_replies = {Out("tools", 1, ""), Out("plain", 0, "")},
       !.patch_replies = {Out("tools", 1, ""), Out("diff_ok", 0, ""),
                          Out("json_edits", MaxCandidates, "")},
       !.llm_errors = {Out("err_quota", 0, "")}]

Runs ==
    { \* every gate on, every collaborator may fail
      [cfg |-> RunConfig("G5", 1, LocBudget, PatchBudget, Budget), env |-> FailingEnv],
      \* RED gate of G1 with a broken test infrastructure
      [cfg |-> RunConfig("G1", 1, LocBudget, PatchBudget, Budget),
       env |-> [QuietEnv EXCEPT !.red = RedInfraOutcomes,
                                !.validate = {"passed", "failed"}]],
      \* no gate, two iterations
      [cfg |-> RunConfig("G0", 2, LocBudget, PatchBudget, Budget),
       env |-> [QuietEnv EXCEPT !.validate = {"passed", "failed", "raise"},
                                !.apply = {"ok", "other"},
                                !.workdir = {"present", "lost"},
                                !.patch_replies = {Out("diff_ok", 0, ""), Out("empty", 0, ""),
                                                   Out("tools", 1, "")}]],
      \* API errors that are retried
      [cfg |-> RunConfig("G0", 1, LocBudget, PatchBudget, Budget),
       env |-> [QuietEnv EXCEPT
                  !.llm_errors = {Out("err_temporary", 0, ""),
                                  Out("err_rate_limit_per_min", 0, ""),
                                  Out("err_other", 0, "")}]],
      \* no iteration at all, with and without the gates
      [cfg |-> RunConfig("G5", 0, LocBudget, PatchBudget, Budget), env |-> FailingEnv],
      [cfg |-> RunConfig("G0", 0, LocBudget, PatchBudget, Budget), env |-> QuietEnv] }

Init == \E r \in Runs : InitWith(r.cfg, r.env)

Next ==
    \/ Harness
    \/ RedCompile
    \/ RedTest
    \/ IterStart
    \/ LocalizeTop
    \/ LocalizeLLM
    \/ LocalizeForcedLLM
    \/ LocalizeTools
    \/ PatchTop
    \/ PatchLLM
    \/ PatchTools
    \/ CandApply
    \/ CandDiff
    \/ CandSanity
    \/ CandCompile
    \/ Apply
    \/ Compile
    \/ Canon
    \/ Green
    \/ Validate

Spec == Init /\ [][Next]_vars

(***************************************************************************)
(* The loop against the clock: every call is either immediate or long.     *)
(***************************************************************************)
TimedEnv ==
    [QuietEnv EXCEPT
       !.validate = {"passed", "failed", "raise"},
       !.green = {TestResult("ret", TRUE, TRUE, 0), TestResult("ret", TRUE, TRUE, 1),
                  TestResult("ret", FALSE, TRUE, 0 - 1), TestResult("ret", FALSE, FALSE, 0)},
       !.loc_replies = {Out("tools", 1, ""), Out("plain", 0, "")},
       !.patch_replies = {Out("tools", 1, ""), Out("diff_ok", 0, ""),
                          Out("json_edits", 1, "")},
       !.durs = {0, LongCall}, !.durs_llm = {0, LongCall},
       !.durs_tool = {0, LongCall}, !.durs_test = {0, LongCall}]

TimedRuns ==
    { \* every gate on, one iteration
      [cfg |-> RunConfig("G5", 1, LocBudget, PatchBudget, Budget), env |-> TimedEnv],
      \* no gate, two iterations
      [cfg |-> RunConfig("G0", 2, LocBudget, PatchBudget, Budget),
       env |-> [TimedEnv EXCEPT
                  !.loc_replies = {Out("plain", 0, "")},
                  !.patch_replies = {Out("tools", 1, ""), Out("diff_ok", 0, "")},
                  !.validate = {"passed", "failed"}]] }

InitTimed == \E r \in TimedRuns : InitWith(r.cfg, r.env)

NextTimed ==
    \/ Harness
    \/ RedCompile
    \/ RedTest
    \/ IterStart
    \/ LocalizeTop
    \/ LocalizeLLM
    \/ LocalizeForcedLLM
    \/ LocalizeTools
    \/ PatchTop
    \/ PatchLLM
    \/ PatchTools
    \/ CandApply
    \/ CandDiff
    \/ CandSanity
    \/ CandCompile
    \/ Apply
    \/ Compile
    \/ Canon
    \/ Green
    \/ Validate

SpecTimed == InitTimed /\ [][NextTimed]_vars

(***************************************************************************)
(* The patch phase under malformed diffs: format enforcement.              *)
(***************************************************************************)
FormatEnv ==
    [QuietEnv EXCEPT
       !.patch_replies = {Out("diff_bad", 0, "hunk_count_mismatch"),
                          Out("diff_bad", 0, "no_hunks"),
                          Out("diff_ok", 0, ""), Out("json_edits", 1, "")},
       !.validate = {"passed", "failed"}]

FormatRuns ==
    { [cfg |-> RunConfig("G3", 2, LocBudget, FormatPatchBudget, Budget + 1),
       env |-> [FormatEnv EXCEPT !.validate = {"passed"}]],
      [cfg |-> RunConfig("G0", 2, LocBudget, FormatPatchBudget, Budget + 1),
       env |-> FormatEnv] }

InitFormat == \E r \in FormatRuns : InitWith(r.cfg, r.env)

NextFormat ==
    \/ Harness
    \/ IterStart
    \/ LocalizeTop
    \/ LocalizeLLM
    \/ PatchTop
    \/ PatchLLM
    \/ CandApply
    \/ CandDiff
    \/ CandSanity
    \/ CandCompile
    \/ Apply
    \/ Compile
    \/ Canon
    \/ Validate

SpecFormat == InitFormat /\ [][NextFormat]_vars

(***************************************************************************)
(* The patch phase behind its gates: candidates that fail to apply or to   *)
(* compile, patches that fail GREEN or the validation, several attempts.   *)
(***************************************************************************)
GatesRuns ==
    { \* compile gate, structured edits with several candidates
      [cfg |-> RunConfig("G3", 1, LocBudget, GatesPatchBudget, GatesBudget),
       env |-> [QuietEnv EXCEPT
                  !.compile = {"ok", "fail"},
                  !.edits = {"ok", "fail", "partial", "unchanged"},
                  !.diff = {"changes", "none"},
                  !.apply = {"ok", "check_failed_format", "check_failed_apply"},
                  !.validate = {"passed", "failed"},
                  !.patch_replies = {Out("json_edits", CandBatch, ""),
                                     Out("diff_ok", 0, "")}]],
      \* every gate, unified diffs that fail one gate or another
      [cfg |-> RunConfig("G5", 1, LocBudget, GatesPatchBudget, GatesBudget),
       env |-> [QuietEnv EXCEPT
                  !.compile = {"ok", "fail"},
                  !.apply = {"ok", "check_failed_apply"},
                  !.green = {TestResult("ret", TRUE, TRUE, 0), TestResult("ret", TRUE, TRUE, 1)},
                  !.validate = {"passed", "failed"},
                  !.patch_replies = {Out("diff_ok", 0, ""), Out("tools", 1, "")}]] }

InitGates == \E r \in GatesRuns : InitWith(r.cfg, r.env)

NextGates ==
    \/ Harness
    \/ RedCompile
    \/ RedTest
    \/ IterStart
    \/ LocalizeTop
    \/ LocalizeLLM
    \/ PatchTop
    \/ PatchLLM
    \/ PatchTools
    \/ CandApply
    \/ CandDiff
    \/ CandSanity
    \/ CandCompile
    \/ Apply
    \/ Compile
    \/ Canon
    \/ Green
    \/ Validate

SpecGates == InitGates /\ [][NextGates]_vars

(***************************************************************************)
(* ToolRuntime on its own: batches of tool calls with well-formed and      *)
(* ill-formed arguments, registered and unregistered names.                *)
(***************************************************************************)
ToolsRuns ==
    { \* equal and different arguments for a cached and an uncached tool
      [cfg |-> RunConfig("G0", 1, LocBudget, PatchBudget, Budget),
       env |-> [QuietEnv EXCEPT
                  !.tool_names = {"read_file", "search_in_files"},
                  !.tool_args = {ArgsText("object", "a", 1), ArgsText("object", "a", 2),
                                 ArgsText("object", "b", 1)}]],
      \* tools registered for the patch phase and the gates, a name nobody
      \* registered, ill-formed arguments
      [cfg |-> RunConfig("G5", 1, LocBudget, PatchBudget, Budget),
       env |-> [QuietEnv EXCEPT
                  !.tool_names = {"read_file", "apply_patch", "check_compile", "list_dir"},
                  !.tool_args = {ArgsText("object", "a", 1), ArgsText("array", "a", 1),
                                 ArgsText("broken", "a", 1)}]] }

InitTools == \E r \in ToolsRuns : InitWith(r.cfg, r.env)

NextTools ==
    \/ HandleToolCalls
    \/ ExtendMessages
    \/ StartRun

SpecTools == InitTools /\ [][NextTools]_vars

\* C1: whenever a conversation is about to be sent to the LLM (messages in the
\* localize phase, forced requests included, patch_messages in the patch
\* phase), after any tool rounds and truncations, every assistant message with
\* N >= 1 tool calls is directly followed by exactly its N tool messages in
\* call order and no tool message stands without such an assistant before it.
C1_SentConversationWellFormed ==
    /\ pc \in {"loc_llm", "loc_forced"} => WellFormed(messages)
    /\ pc = "patch_llm" => WellFormed(patch_messages)

\* a patch-phase request whose conversation went through a truncation in both
\* phases, one of which removed an incomplete assistant/tool sequence
C1_Witness ==
    /\ pc = "patch_llm"
    /\ hist.truncated = {"localize", "patch"}
    /\ hist.dropped_incomplete
    /\ \E i \in 1..Len(patch_messages) : patch_messages[i].role = "tool"

\* C2: the loop returns ok=true only directly after a validate_fn call that
\* returned passed=true for the very patch it returns (in the iteration it
\* reports); every other exit returns ok=false.
C2_OkOnlyAfterPassedValidation ==
    (pc = "done" /\ result.kind = "return" /\ result.ok) =>
        /\ hist.last_call = "validate"
        /\ hist.validate.outcome = "passed"
        /\ hist.validate.patch = result.patch
        /\ hist.validate.it = result.iterations
        /\ result.error = NoError

\* a success that follows an earlier failed validation
C2_Witness ==
    /\ pc = "done"
    /\ result.ok
    /\ hist.validate.n >= 2
    /\ metrics.validation_failures >= 1

\* C3: every return of the loop carries a metrics object whose
\* runtime_seconds was set at that exit.
C3_EveryReturnCarriesMetrics ==
    (pc = "done" /\ result.kind = "return") =>
        /\ result.has_metrics
        /\ metrics.runtime_seconds = elapsed

\* C4: no exception raised by an adapter-backed call (harness_fn,
\* check_compile, verify_red, verify_green, apply_patch_fn, validate_fn, a
\* tool callable dispatched by ToolRuntime) leaves the loop.
C4_NoAdapterExceptionEscapes == result.kind # "raised"

\* C5 (as the code has it): the clock is looked at on iteration entry, at the
\* top of every localize and patch round, and directly after verify_green and
\* validate_fn.  Once a tool dispatch, verify_green or validate_fn returns at
\* or after the limit, the loop starts no further call and returns Timeout.
C5_NoCallAfterPolledLateReturn ==
    /\ hist.after_polled = {}
    /\ hist.polled_late =>
         \/ pc \in {"loc_top", "patch_top"}
         \/ /\ pc = "done"
            /\ result.kind = "return"
            /\ ~result.ok
            /\ result.error.text = TimeoutError("").text
            /\ result.runtime_seconds >= MAX_RUNTIME_SECONDS

\* a tool dispatch of the patch phase returned late and the loop timed out
C5_Witness ==
    /\ pc = "done"
    /\ hist.polled_late
    /\ hist.last_call = "tools"
    /\ result.error = TimeoutError("during patch generation")

\* C5 (as stated): once the limit is reached when any suspension point
\* returns, no further LLM call, tool dispatch or adapter call is started.
C5_NoCallStartsAfterLimit == hist.started_late = {}

\* C6: if the limit is reached when validate_fn returns in iteration k, the
\* loop returns ok=false, error "Timeout: exceeded 1200s ...", iterations
\* k - 1 and runtime_seconds >= 1200, whatever the verdict.
C6_LateValidationTimesOut ==
    hist.validate.late =>
        /\ pc = "done"
        /\ result.kind = "return"
        /\ ~result.ok
        /\ result.error = TimeoutError("after full test validation")
        /\ result.error.limit = 1200
        /\ result.iterations = hist.validate.it - 1
        /\ result.has_metrics
        /\ metrics.runtime_seconds >= 1200

\* a validation of the second iteration that passed, but too late
C6_Witness ==
    /\ hist.validate.late
    /\ hist.validate.outcome = "passed"
    /\ hist.validate.it = 2
    /\ result.iterations = 1

\* C7: with RED verification enabled and verify_red registered, a verify_red
\* that can only report an infrastructure error (ran=false, or rc -1, None,
\* 255) makes the loop return ok=false with "RED test execution failed"
\* before any LLM call, without any iteration, tdd_gate_red_verified=false.
C7_RedInfraErrorStopsBeforeLLM ==
    (/\ RedEnabled
     /\ "verify_red" \in func_map(cfg, env)
     /\ env.harness = {"ok"}
     /\ env.red \subseteq RedInfraOutcomes) =>
        /\ hist.llm_calls = 0
        /\ it = 0
        /\ ~metrics.tdd_gate_red_verified
        /\ pc = "done" =>
             /\ ~result.ok
             /\ result.error = Err("RED test execution failed; cannot proceed")

\* C8: whenever verify_red was invoked at the RED gate and returned, the loop
\* set tdd_gate_red_verified and went on to the iterations iff ran=true and
\* rc is none of None, -1, 255, 0, 2, 4; otherwise it returned ok=false
\* without any LLM call.
C8_RedVerifiedIffAcceptable ==
    hist.red.kind = "ret" =>
        IF hist.red.ran /\ hist.red.has_rc /\ hist.red.rc \notin {0 - 1, 255, 0, 2, 4}
        THEN /\ metrics.tdd_gate_red_verified
             /\ it >= 1
        ELSE /\ ~metrics.tdd_gate_red_verified
             /\ pc = "done"
             /\ result.kind = "return"
             /\ ~result.ok
             /\ hist.llm_calls = 0
             /\ it = 0

\* a RED test that failed as it should, and a loop that went on to the LLM
C8_Witness ==
    /\ hist.red = TestResult("ret", TRUE, TRUE, 1)
    /\ metrics.tdd_gate_red_verified
    /\ hist.llm_calls > 0

\* C9 (as the code has it): while force_structured_edits is true, that is for
\* the rest of the patch phase in which it was set, apply_patch_fn is not
\* invoked with a unified diff produced by the LLM; the flag is reset when the
\* next iteration enters its patch phase.
C9_NoLlmDiffAppliedWhileForced ==
    /\ ~hist.diff_while_forced
    /\ pc = "apply" => ~force_structured_edits

\* after the flag was set, the LLM sent a valid diff and it was rejected
C9_Witness ==
    /\ force_structured_edits
    /\ hist.force_at > 0
    /\ Len(hist.attempts) > hist.force_at
    /\ Last(hist.attempts).kind = "diff_ok"
    /\ Last(hist.sigs).sig = sig_short(Sig("expected_structured_edits_json", 0, FALSE))

\* C9 (as stated): once force_structured_edits has become true, apply_patch_fn
\* is never again invoked with an LLM-produced diff, in any later iteration
\* either.
C9_NoLlmDiffAppliedAfterForce == hist.diff_after_force = 0

\* C10 (as the code has it): when the first three patch attempts of a patch
\* phase are the same malformed diff, each is recorded as a format_error with
\* the validator's diagnostic as signature (repeats 1, 2, 3), the flag is set
\* while the third is rejected, and a fourth attempt of valid structured
\* edits is applied by apply_edits, turned into a diff by get_git_diff and
\* validated, giving ok=true.
C10_ForcedOnThirdMalformedDiff ==
    (/\ Len(hist.attempts) >= 3
     /\ hist.attempts[1].kind = "diff_bad"
     /\ hist.attempts[2] = hist.attempts[1]
     /\ hist.attempts[3] = hist.attempts[1]) =>
        /\ hist.force_at = 3
        /\ \A i \in 1..3 :
             hist.sigs[i] = [type |-> "format_error",
                             sig |-> sig_short(Sig(hist.attempts[1].diag, 0, FALSE)),
                             repeat |-> i]
        /\ (/\ Len(hist.attempts) = 4
            /\ hist.attempts[4].kind = "json_edits"
            /\ pc = "done") =>
               /\ result.ok
               /\ hist.via_apply_edits
               /\ result.patch = GitDiff(metrics.patch_attempts)
               /\ hist.last_call = "validate"
               /\ hist.validate.outcome = "passed"

\* three times the same malformed diff, then structured edits, in G3: ok=true
C10_Witness ==
    /\ cfg.variant = "G3"
    /\ pc = "done"
    /\ result.ok
    /\ Len(hist.attempts) = 4
    /\ hist.attempts[1] = Out("diff_bad", 0, "hunk_count_mismatch")
    /\ hist.attempts[2] = hist.attempts[1]
    /\ hist.attempts[3] = hist.attempts[1]
    /\ hist.attempts[4].kind = "json_edits"
    /\ hist.force_at = 3

\* C10 (as stated): the third of the three malformed diffs is rejected with
\* the signature expected_structured_edits_json.
C10_ThirdAttemptRejectedAsNotStructured ==
    (/\ Len(hist.attempts) >= 3
     /\ hist.attempts[1].kind = "diff_bad"
     /\ hist.attempts[2] = hist.attempts[1]
     /\ hist.attempts[3] = hist.attempts[1]) =>
        hist.sigs[3].sig = sig_short(Sig("expected_structured_edits_json", 0, FALSE))

\* C11 (as stated): with the compile gate on, when the one response of a
\* run is a structured-edits response of three candidates of which the first
\* two fail check_compile and the third compiles and passes the validation,
\* the run ends with metrics.compile_failures = 2, compile_success_count = 1
\* and exactly one PATCH_FAIL_SUMMARY installed
C11_ThreeCandidatesCounted ==
    (/\ pc = "done" /\ result.kind = "return" /\ result.ok
     /\ CompileGate
     /\ metrics.patch_attempts = 1
     /\ hist.cand_results = << "compile_failed", "compile_failed", "accepted" >>)
    => /\ metrics.compile_failures = 2
       /\ metrics.compile_success_count = 1
       /\ Len(hist.sigs) = 1

\* C12 (as stated): for every failure type, once a PATCH_FAIL_SUMMARY has been
\* installed whose (type, first 200 signature characters) was recorded on at
\* least two consecutive failures (four for format_error), the patch loop
\* sends no further LLM request
C12_RepeatedFailureStopsPatchLoop == hist.asked_after = {}

\* C13 (as stated): within one localize phase, once the tool calls requested
\* by the LLM in that phase add up to 15 or more, no further request with the
\* tools enabled is sent: the next request is the forced one; truncations of
\* the conversation during the phase change nothing in that
C13_NoFreeRequestAfterToolCap == ~hist.free_after_cap

\* C14 (as stated): a tool call whose name is not among the tools offered in
\* the current phase (apply_patch or check_compile requested while the LLM is
\* offered the localize tools) is never executed by ToolRuntime and is answered
\* with the ok=false "not available" result
C14_OnlyOfferedToolsExecuted ==
    \A i \in 1..Len(runtime.calls) :
       runtime.batch[i].name \notin tools_schema(cfg)
         => /\ runtime.calls[i].how # "executed"
            /\ runtime.pc = "returned" => runtime.tool_messages[i].content = NotAvailable

\* C15 (as stated): for every batch of N tool calls, whatever the arguments
\* (unparseable, not a JSON object, not accepted by the callable) and the
\* names, handle_tool_calls returns N tool messages, the i-th with the id and
\* the name of the i-th call
C15_EveryCallAnswered ==
    runtime.pc \in {"returned", "raised"}
      => /\ runtime.pc = "returned"
         /\ Len(runtime.tool_messages) = Len(runtime.batch)
         /\ \A i \in 1..Len(runtime.batch) :
               /\ runtime.tool_messages[i].tool_call_id = runtime.batch[i].id
               /\ runtime.tool_messages[i].name = runtime.batch[i].name

\* C16: every call of a registered tool is passed to its callable, except
\* when the tool is one of read_file, read_span, symbol_lookup,
\* find_references and an earlier call of the run with the same name and the
\* same arguments up to the order of the keys returned an ok result; then,
\* and only then, the stored result is returned with _cached = true
C16_CallableSkippedOnlyOnCacheHit ==
    \A i \in 1..Len(runtime.calls) :
       LET c == runtime.calls[i]
           hit == /\ c.name \in {"read_file", "read_span", "symbol_lookup", "find_references"}
                  /\ c.seen_ok
       IN c.name \in func_map(cfg, env)
            => /\ c.how \in {"executed", "cached", "raised"}
               /\ c.how = "cached" <=> hit
               /\ c.how = "cached" => c.res = [c.stored EXCEPT !._cached = TRUE]
               /\ c.how = "executed" => ~c.res._cached

\* a batch in which read_file is answered from the result an earlier call
\* with the keys in another order stored, and search_in_files is executed
\* although an earlier call with the same arguments returned ok
C16_Witness ==
    /\ runtime.pc = "returned"
    /\ \E i \in 1..Len(runtime.calls) :
          /\ runtime.calls[i].name = "read_file" /\ runtime.calls[i].how = "cached"
          /\ runtime.batch[i].arguments.order = 2 /\ runtime.calls[i].res.val = 1
    /\ \E j \in 1..Len(runtime.calls) :
          /\ runtime.calls[j].name = "search_in_files" /\ runtime.calls[j].seen_ok
          /\ runtime.calls[j].how = "executed"

\* C17 (as stated): whenever the loop applies a structured-edits candidate or
\* a unified diff, the working tree holds no modification written by a
\* candidate or patch that was rejected before (failed or partial apply,
\* empty diff, compile failure, GREEN failure, validation failure)
C17_AppliedOnCleanWorkdir == ~hist.applied_on_leftover

\* C18: in every reachable state metrics.total_api_calls equals
\* metrics.localization_api_calls + metrics.patch_api_calls
C18_TotalIsSumOfPhases ==
    metrics.total_api_calls = metrics.localization_api_calls + metrics.patch_api_calls

\* both phases counted, after requests that failed and were retried
C18_Witness ==
    /\ metrics.localization_api_calls >= 1
    /\ metrics.patch_api_calls >= 1
    /\ hist.llm_calls > metrics.total_api_calls

\* C19 (as stated): every LLM request that ends with a response, on the first
\* attempt or after retried failures, with the tools enabled or forced, adds
\* one to the counter of its phase and one to total_api_calls, and a failed
\* attempt adds nothing
C19_EveryResponseCounted ==
    /\ metrics.localization_api_calls = hist.responses.localize
    /\ metrics.patch_api_calls = hist.responses.patch
    /\ metrics.total_api_calls = hist.responses.localize + hist.responses.patch

\* C20: once an LLM request (localize, forced localize or patch) has failed
\* with a credits/quota-exhausted error, the run has returned ok=false with
\* the error "LLM credits/quota exhausted", no further LLM request was made,
\* and the returned metrics are the ones accumulated up to that request
C20_QuotaErrorStopsRun ==
    hist.quota.seen
      => /\ pc = "done"
         /\ result.kind = "return" /\ ~result.ok
         /\ result.error = Err("LLM credits/quota exhausted")
         /\ result.has_metrics
         /\ hist.llm_calls = hist.quota.llm_calls
         /\ [metrics EXCEPT !.runtime_seconds = 0]
              = [hist.quota.metrics EXCEPT !.runtime_seconds = 0]

\* the quota error comes in the patch phase, after requests that were counted
C20_Witness ==
    /\ hist.quota.seen
    /\ pc = "done"
    /\ hist.last_call = "llm"
    /\ metrics.patch_api_calls >= 1
    /\ metrics.total_tool_calls >= 1

(***************************************************************************)
(* validate_unified_diff on the text itself.  A text is the sequence of    *)
(* its lines (text.splitlines()), a line the sequence of its characters.   *)
(***************************************************************************)
StartsWith(ln, p) == Len(ln) >= Len(p) /\ SubSeq(ln, 1, Len(p)) = p

\* p in ln
Contains(ln, p) ==
    \E i \in 1..(Len(ln) - Len(p) + 1) : SubSeq(ln, i, i + Len(p) - 1) = p

IsSpace(ch) == ch \in {" ", "\t"}
IsDigit(ch) == ch \in {"0", "1", "2", "3", "4", "5", "6", "7", "8", "9"}
DigitVal(ch) ==
    CASE ch = "0" -> 0 [] ch = "1" -> 1 [] ch = "2" -> 2 [] ch = "3" -> 3
      [] ch = "4" -> 4 [] ch = "5" -> 5 [] ch = "6" -> 6 [] ch = "7" -> 7
      [] ch = "8" -> 8 [] OTHER -> 9

\* the first position from i on that holds no digit
RECURSIVE DigitsEnd(_, _)
DigitsEnd(ln, i) ==
    IF i <= Len(ln) /\ IsDigit(ln[i]) THEN DigitsEnd(ln, i + 1) ELSE i

\* int(ln[i:j])
RECURSIVE ToInt(_, _, _)
ToInt(ln, i, j) ==
    IF j <= i THEN 0 ELSE ToInt(ln, i, j - 1) * 10 + DigitVal(ln[j - 1])

DiffGit == << "d", "i", "f", "f", " ", "-", "-", "g", "i", "t" >>
OldFile == << "-", "-", "-", " " >>
NewFile == << "+", "+", "+", " " >>
NoNewline == << "\\", " ", "N", "o", " ", "n", "e", "w", "l", "i", "n", "e", " ",
                "a", "t", " ", "e", "n", "d", " ", "o", "f", " ", "f", "i", "l", "e" >>

\* ("diff --git" in text) and (("\n--- " in text) or ("\n+++" in text))
is_unified_diff(text) ==
    /\ \E i \in 1..Len(text) : Contains(text[i], DiffGit)
    /\ \E i \in 2..Len(text) :
          StartsWith(text[i], OldFile) \/ StartsWith(text[i], << "+", "+", "+" >>)

\* hunk_re.match(ln): ^@@ -(\d+)(?:,(\d+))? \+(\d+)(?:,(\d+))? @@
hunk_re_match(ln) ==
    LET a1 == 5
        a2 == DigitsEnd(ln, a1)
        c1 == a2 <= Len(ln) /\ ln[a2] = "," /\ DigitsEnd(ln, a2 + 1) > a2 + 1
        a3 == IF c1 THEN DigitsEnd(ln, a2 + 1) ELSE a2
        b1 == a3 + 2
        b2 == DigitsEnd(ln, b1)
        c2 == b2 <= Len(ln) /\ ln[b2] = "," /\ DigitsEnd(ln, b2 + 1) > b2 + 1
        b3 == IF c2 THEN DigitsEnd(ln, b2 + 1) ELSE b2
        ok == /\ StartsWith(ln, << "@", "@", " ", "-" >>)
              /\ a2 > a1
              /\ Len(ln) >= a3 + 1 /\ ln[a3] = " " /\ ln[a3 + 1] = "+"
              /\ b2 > b1
              /\ Len(ln) >= b3 + 2
              /\ ln[b3] = " " /\ ln[b3 + 1] = "@" /\ ln[b3 + 2] = "@"
    IN IF ok
       THEN [ok |-> TRUE,
             old_count |-> IF c1 THEN ToInt(ln, a2 + 1, a3) ELSE 1,
             new_count |-> IF c2 THEN ToInt(ln, b2 + 1, b3) ELSE 1]
       ELSE [ok |-> FALSE, old_count |-> 0, new_count |-> 0]

DiffOk == [ok |-> TRUE, error |-> "", expected_old |-> 0, expected_new |-> 0,
           seen_old |-> 0, seen_new |-> 0, line |-> 0]
DiffError(error) == [DiffOk EXCEPT !.ok = FALSE, !.error = error]

\* the inner while: the body of a hunk from line j on; stops at the next hunk,
\* at a file header or at the end, or on a line with an invalid prefix
RECURSIVE hunk_body(_, _, _, _)
hunk_body(lines, j, old_seen, new_seen) ==
    IF j > Len(lines)
    THEN [j |-> j, old_seen |-> old_seen, new_seen |-> new_seen, invalid |-> FALSE]
    ELSE LET ln == lines[j]
         IN IF StartsWith(ln, << "@", "@", " " >>)
               \/ StartsWith(ln, DiffGit) \/ StartsWith(ln, OldFile) \/ StartsWith(ln, NewFile)
            THEN [j |-> j, old_seen |-> old_seen, new_seen |-> new_seen, invalid |-> FALSE]
            ELSE IF StartsWith(ln, NoNewline)
            THEN hunk_body(lines, j + 1, old_seen, new_seen)
            ELSE IF StartsWith(ln, << " " >>)
            THEN hunk_body(lines, j + 1, old_seen + 1, new_seen + 1)
            ELSE IF StartsWith(ln, << "-" >>)
            THEN hunk_body(lines, j + 1, old_seen + 1, new_seen)
            ELSE IF StartsWith(ln, << "+" >>)
            THEN hunk_body(lines, j + 1, old_seen, new_seen + 1)
            ELSE [j |-> j, old_seen |-> old_seen, new_seen |-> new_seen, invalid |-> TRUE]

\* the outer while, from line i on
RECURSIVE hunks_from(_, _, _)
hunks_from(lines, i, hunks_found) ==
    IF i > Len(lines)
    THEN IF hunks_found = 0 THEN DiffError("no @@ hunks found in patch") ELSE DiffOk
    ELSE LET m == hunk_re_match(lines[i])
             b == hunk_body(lines, i + 1, 0, 0)
         IN IF ~m.ok THEN hunks_from(lines, i + 1, hunks_found)
            ELSE IF b.invalid
            THEN [DiffError("invalid hunk line prefix") EXCEPT !.line = b.j]
            ELSE IF b.old_seen # m.old_count \/ b.new_seen # m.new_count
            THEN [DiffError("hunk line counts do not match @@ header") EXCEPT
                     !.expected_old = m.old_count, !.expected_new = m.new_count,
                     !.seen_old = b.old_seen, !.seen_new = b.new_seen]
            ELSE hunks_from(lines, b.j, hunks_found + 1)

\* validate_unified_diff(text), text given by its lines
validate_unified_diff_lines(text) ==
    IF \A i \in 1..Len(text) : \A k \in 1..Len(text[i]) : IsSpace(text[i][k])
    THEN DiffError("empty patch")
    ELSE IF \E i \in 1..Len(text) : Contains(text[i], << ".", ".", "." >>)
    THEN DiffError("patch contains placeholder '...'")
    ELSE IF ~is_unified_diff(text)
    THEN DiffError("not unified diff (missing diff --git/---/+++)")
    ELSE hunks_from(text, 1, 0)

\* Every budget set to 1: one iteration, one API call per phase, one tool call
\* per patch, one direct patch, one apply failure, one compile failure
OneEachRuns ==
    { [cfg |-> RunConfig(v, 1, 1, 1, 1),
       env |-> [QuietEnv EXCEPT
                  !.loc_replies = {Out("tools", 1, ""), Out("tools", 2, ""),
                                   Out("plain", 0, "")},
                  !.patch_replies = {Out("tools", 1, ""), Out("diff_ok", 0, ""),
                                     Out("diff_bad", 0, "no_hunks"),
                                     Out("json_edits", 1, ""), Out("empty", 0, "")},
                  !.apply = {"ok", "fail"}, !.compile = {"ok", "fail"},
                  !.validate = {"passed", "failed"}]] : v \in {"G0", "G3"} }

InitOneEach == \E r \in OneEachRuns : InitWith(r.cfg, r.env)

NextOneEach ==
    \/ Harness
    \/ IterStart
    \/ LocalizeTop
    \/ LocalizeLLM
    \/ LocalizeForcedLLM
    \/ LocalizeTools
    \/ PatchTop
    \/ PatchLLM
    \/ PatchTools
    \/ CandApply
    \/ CandDiff
    \/ CandSanity
    \/ CandCompile
    \/ Apply
    \/ Compile
    \/ Canon
    \/ Validate

SpecOneEach == InitOneEach /\ [][NextOneEach]_vars

\* C22: with every budget set to 1, a run that has returned issued exactly one
\* LLM request in the localize phase and exactly one in the patch phase.
C22_OneRequestPerPhase ==
    (pc = "done" /\ result.kind = "return") =>
        /\ hist.requests.localize = 1
        /\ hist.requests.patch = 1

\* C23: with max_iters = 0 no LLM request is ever made, and once the harness
\* has succeeded (and, where the RED gate is enabled, the test has run and
\* failed with rc 1) the run returns ok = false, iterations = 0, the error
\* "Reached max iterations without successful patch", harness_ok = true and the
\* metrics, whose tdd_gate_red_verified tells whether the RED gate was passed.
C23_ZeroIterationsReturnsAtOnce ==
    cfg.max_iters = 0 =>
        /\ hist.llm_calls = 0
        /\ (/\ pc = "done"
            /\ hist.harness = "ok"
            /\ RedEnabled => hist.red = TestResult("ret", TRUE, TRUE, 1))
           => /\ result.kind = "return"
              /\ result.ok = FALSE
              /\ result.iterations = 0
              /\ result.error = Err("Reached max iterations without successful patch")
              /\ result.has_metrics
              /\ result.harness_ok
              /\ metrics.tdd_gate_red_verified = RedEnabled

C23_Witness ==
    /\ cfg.max_iters = 0
    /\ pc = "done"
    /\ RedEnabled
    /\ hist.red = TestResult("ret", TRUE, TRUE, 1)
    /\ result.iterations = 0
    /\ metrics.tdd_gate_red_verified

\* C24: patch_messages holds at most one PATCH_FAIL_SUMMARY user message, and
\* the one it holds is the summary (type and repeat count) of the failure
\* recorded last in the patch phase.
C24_OneSummaryOfLastFailure ==
    LET at == { i \in 1..Len(patch_messages) :
                  /\ patch_messages[i].role = "user"
                  /\ patch_messages[i].tag = "PATCH_FAIL_SUMMARY" }
    IN /\ Cardinality(at) <= 1
       /\ \A i \in at :
             /\ Len(hist.sigs) > 0
             /\ patch_messages[i].info = hist.sigs[Len(hist.sigs)].type
             /\ patch_messages[i].n = hist.sigs[Len(hist.sigs)].repeat

C24_Witness ==
    /\ Len(hist.sigs) >= 3
    /\ hist.sigs[1].type # hist.sigs[2].type
    /\ \E i \in 1..Len(patch_messages) :
          /\ patch_messages[i].tag = "PATCH_FAIL_SUMMARY"
          /\ patch_messages[i].info = hist.sigs[3].type

\* C25: in a patch phase consecutive_direct_patches is 0 right after a
\* response that carries tool calls and right after a PATCH_FAIL_SUMMARY is
\* installed, and otherwise changes only by +1, on a response without tool
\* calls.
C25_DirectPatchCounterSteps ==
    [][ LET answered == hist'.responses.patch = hist.responses.patch + 1
            with_tools == /\ answered
                          /\ Len(patch_messages') = Len(patch_messages) + 1
                          /\ patch_messages'[Len(patch_messages')].role = "assistant"
                          /\ patch_messages'[Len(patch_messages')].n >= 1
            direct == answered /\ ~with_tools
            summary == Len(hist'.sigs) > Len(hist.sigs)
            entered == hist'.responses.localize # hist.responses.localize
        IN /\ with_tools => consecutive_direct_patches' = 0
           /\ summary => consecutive_direct_patches' = 0
           /\ (~entered /\ ~with_tools /\ ~summary) =>
                 consecutive_direct_patches' =
                    IF direct THEN consecutive_direct_patches + 1
                    ELSE consecutive_direct_patches ]_vars

C25_Witness ==
    /\ consecutive_direct_patches = 1
    /\ Len(hist.sigs) >= 1
    /\ Len(hist.attempts) >= 2
    /\ pc # "done"

\* C26: the metrics never show more successful applies than apply attempts,
\* nor more successful compilations than compile attempts.
C26_SuccessesWithinAttempts ==
    /\ metrics.apply_success_count <= metrics.apply_attempt_count
    /\ metrics.compile_success_count <= metrics.compile_attempt_count

C26_Witness ==
    /\ metrics.apply_attempt_count = 2
    /\ metrics.apply_success_count = 1
    /\ metrics.compile_attempt_count = 2
    /\ metrics.compile_success_count = 1

\* Texts given to validate_unified_diff: a head, one hunk header, a body of at
\* most MaxBody lines, a tail
MaxBody == 3

DiffHeads ==
    { << DiffGit \o << " ", "a" >>, OldFile \o << "a" >>, NewFile \o << "b" >> >>,
      << DiffGit \o << " ", "a" >> >>,
      << OldFile \o << "a" >>, NewFile \o << "b" >> >>,
      << >> }

\* "@@ -1[,old] +1[,new] @@"; a count of 0 stands for an omitted count
HunkHeader(old, new) ==
    LET digit(n) == CASE n = 1 -> "1" [] n = 2 -> "2" [] OTHER -> "3"
        count(n) == IF n = 0 THEN << >> ELSE << ",", digit(n) >>
    IN ((<< "@", "@", " ", "-", "1" >> \o count(old)) \o << " ", "+", "1" >>)
          \o count(new) \o << " ", "@", "@" >>

HunkHeaders == { HunkHeader(old, new) : old \in {0, 2, 3}, new \in {0, 2, 3} }

BodyLines ==
    { << " ", "x" >>, << "-", "x" >>, << "+", "x" >>,
      << "-", "-", "-", " ", "x" >>,            \* the line "-- x" removed
      NoNewline, << "\\", " ", "x" >>, << "x" >> }

RECURSIVE Bodies(_)
Bodies(n) ==
    IF n = 0 THEN { << >> }
    ELSE Bodies(n - 1) \cup { Append(b, ln) : b \in { c \in Bodies(n - 1) : Len(c) = n - 1 },
                                              ln \in BodyLines }

DiffTails ==
    { << >>, << HunkHeader(0, 0), << " ", "y" >> >>, << << " ", ".", ".", "." >> >> }

DiffTexts(n) ==
    { ((h \o << hh >>) \o b) \o t :
         h \in DiffHeads, hh \in HunkHeaders, b \in Bodies(n), t \in DiffTails }

InitDiff ==
    /\ InitLoop(BaseConfig, QuietEnv)
    /\ runtime = Runtime0
    /\ \E text \in DiffTexts(MaxBody) \cup { << >> } :
          fn_io = [NoCall EXCEPT !.fn = "validate_unified_diff", !.args = << text >>]

\* the call validate_unified_diff(text)
ValidateUnifiedDiff ==
    /\ fn_io.fn = "validate_unified_diff"
    /\ ~fn_io.returned
    /\ fn_io' = [fn_io EXCEPT !.returned = TRUE,
                              !.out = validate_unified_diff_lines(fn_io.args[1])]
    /\ UNCHANGED << cfg, env, loop_vars, runtime >>

NextDiff == ValidateUnifiedDiff

SpecDiff == InitDiff /\ [][NextDiff]_vars

\* C27: validate_unified_diff accepts a text exactly when it is not empty,
\* holds no "...", has a "diff --git" header and at least one @@ hunk, every
\* line of a hunk body starts with " ", "+", "-" or a backslash, and in every
\* hunk the " " and "-" lines number the header's old count and the " " and
\* "+" lines its new count (an omitted count is 1).
C27_AcceptsExactlyWellCountedDiffs ==
    (fn_io.fn = "validate_unified_diff" /\ fn_io.returned) =>
        LET text == fn_io.args[1]
            N == Len(text)
            IsHunk(i) == hunk_re_match(text[i]).ok
            Ends(i) == IsHunk(i) \/ StartsWith(text[i], DiffGit)
            BodyOf(i) == { j \in (i + 1)..N : \A k \in (i + 1)..j : ~Ends(k) }
            First(j) == IF Len(text[j]) = 0 THEN "" ELSE text[j][1]
            OldSide(i) == Cardinality({ j \in BodyOf(i) : First(j) \in {" ", "-"} })
            NewSide(i) == Cardinality({ j \in BodyOf(i) : First(j) \in {" ", "+"} })
            accepted ==
                /\ \E i \in 1..N : \E k \in 1..Len(text[i]) : ~IsSpace(text[i][k])
                /\ \A i \in 1..N : ~Contains(text[i], << ".", ".", "." >>)
                /\ \E i \in 1..N : StartsWith(text[i], DiffGit)
                /\ \E i \in 1..N : IsHunk(i)
                /\ \A i \in 1..N : IsHunk(i) =>
                      /\ \A j \in BodyOf(i) : First(j) \in {" ", "+", "-", "\\"}
                      /\ OldSide(i) = hunk_re_match(text[i]).old_count
                      /\ NewSide(i) = hunk_re_match(text[i]).new_count
        IN fn_io.out.ok <=> accepted

(***************************************************************************)
(* apply_edits on one file.  A line is a number: line i of the original    *)
(* file is i, a blank line is 0, the lines of new text are above 10.  The  *)
(* list `lines` of the code is a sequence of strings, each a sequence of   *)
(* lines here (lines.insert puts the whole text in as one element).        *)
(***************************************************************************)
Blank == 0

RECURSIVE Flatten(_)
Flatten(chunks) ==
    IF Len(chunks) = 0 THEN << >> ELSE Head(chunks) \o Flatten(Tail(chunks))

\* lines[a:e] = new, with the clamping of Python slices (a, e 0-based, e exclusive)
SliceAssign(lines, a, e, new) ==
    LET lo == Min(a, Len(lines))
        hi == Max(lo, Min(e, Len(lines)))
    IN (SubSeq(lines, 1, lo) \o new) \o SubSeq(lines, hi + 1, Len(lines))

\* sorted(ops, key=start_line, reverse=True): stable, equal keys keep their order
RECURSIVE sorted_reverse(_)
sorted_reverse(ops) ==
    IF Len(ops) = 0 THEN << >>
    ELSE LET init == sorted_reverse(SubSeq(ops, 1, Len(ops) - 1))
             op == ops[Len(ops)]
             k == Cardinality({ i \in 1..Len(init) : init[i].start_line >= op.start_line })
         IN (SubSeq(init, 1, k) \o << op >>) \o SubSeq(init, k + 1, Len(init))

\* one pass of `for op in ops`
apply_op(lines, op) ==
    LET start_line == op.start_line - 1
        end_line == op.end_line - 1
    IN CASE op.type = "replace" ->
              SliceAssign(lines, start_line, end_line + 1,
                          [i \in 1..Len(op.text) |-> << op.text[i] >>])
         [] op.type = "insert" ->
              SliceAssign(lines, start_line, start_line, << op.text >>)
         [] OTHER -> SliceAssign(lines, start_line, end_line + 1, << >>)

RECURSIVE apply_ops(_, _)
apply_ops(lines, ops) ==
    IF Len(ops) = 0 THEN lines ELSE apply_ops(apply_op(lines, Head(ops)), Tail(ops))

\* content.rstrip(): the blank lines at the end dropped
RECURSIVE rstrip(_)
rstrip(content) ==
    IF Len(content) > 0 /\ content[Len(content)] = Blank
    THEN rstrip(SubSeq(content, 1, Len(content) - 1)) ELSE content

\* the content of the file after apply_edits(workdir, [{"path": ..., "ops": ops}])
apply_edits(original_content, ops) ==
    LET lines == IF Len(original_content) = 0 THEN << << >> >>
                 ELSE [i \in 1..Len(original_content) |-> << original_content[i] >>]
        new_content == Flatten(apply_ops(lines, sorted_reverse(ops)))
    IN IF rstrip(original_content) = rstrip(new_content)
       THEN original_content ELSE new_content

\* Files of at most MaxFile lines, lists of at most MaxOps operations on them
MaxFile == 3
MaxOps == 2

Files ==
    { [i \in 1..n |-> i] : n \in 0..MaxFile }
       \cup { [i \in 1..n |-> IF i = n THEN Blank ELSE i] : n \in 2..MaxFile }

Texts == { << >>, << 11 >>, << 12, 13 >> }

EditOps(n) ==
    { [type |-> t, start_line |-> a, end_line |-> b, text |-> x] :
         t \in {"replace", "delete"}, a \in 1..n, b \in 1..n, x \in Texts }
    \cup { [type |-> "insert", start_line |-> a, end_line |-> a, text |-> x] :
              a \in 1..n, x \in Texts }

OpLists(n) ==
    UNION { { q \in [1..k -> EditOps(n)] :
                \A i \in 1..k : /\ q[i].start_line <= q[i].end_line
                                /\ q[i].type = "delete" => q[i].text = << >> } :
            k \in 0..MaxOps }

InitEdits ==
    /\ InitLoop(BaseConfig, QuietEnv)
    /\ runtime = Runtime0
    /\ \E f \in Files : \E ops \in OpLists(Len(f)) :
          fn_io = [NoCall EXCEPT !.fn = "apply_edits", !.args = << f, ops >>]

\* the call apply_edits(workdir, edits_json) for one file
ApplyEdits ==
    /\ fn_io.fn = "apply_edits"
    /\ ~fn_io.returned
    /\ fn_io' = [fn_io EXCEPT !.returned = TRUE,
                              !.out = apply_edits(fn_io.args[1], fn_io.args[2])]
    /\ UNCHANGED << cfg, env, loop_vars, runtime >>

NextEdits == ApplyEdits

SpecEdits == InitEdits /\ [][NextEdits]_vars

\* C28: for operations given by original line numbers, with ranges that do
\* not overlap (no two replace/delete ranges share a line, no insert falls
\* inside a range after its first line, no two inserts at the same line),
\* apply_edits leaves the same content whatever the order of the list: every
\* line of a replace or delete range is gone, the text of a replace stands
\* where its range started, and the text of an insert stands immediately
\* before the original line start_line.
C28_EditsIndependentOfOrder ==
    (fn_io.fn = "apply_edits" /\ fn_io.returned) =>
        LET f == fn_io.args[1]
            ops == fn_io.args[2]
            I == 1..Len(ops)
            Ranged(i) == ops[i].type \in {"replace", "delete"}
            Covers(i, l) == Ranged(i) /\ ops[i].start_line <= l /\ l <= ops[i].end_line
            separate ==
                \A i, j \in I : i # j =>
                   /\ \A l \in 1..Len(f) : ~(Covers(i, l) /\ Covers(j, l))
                   /\ (ops[i].type = "insert" /\ Ranged(j)) =>
                         ~(ops[j].start_line < ops[i].start_line
                           /\ ops[i].start_line <= ops[j].end_line)
                   /\ (ops[i].type = "insert" /\ ops[j].type = "insert") =>
                         ops[i].start_line # ops[j].start_line
            Before(l) == IF \E i \in I : ops[i].type = "insert" /\ ops[i].start_line = l
                         THEN ops[CHOOSE i \in I : ops[i].type = "insert"
                                                   /\ ops[i].start_line = l].text
                         ELSE << >>
            Stands(l) == IF \E i \in I : ops[i].type = "replace" /\ ops[i].start_line = l
                     THEN ops[CHOOSE i \in I : ops[i].type = "replace"
                                               /\ ops[i].start_line = l].text
                     ELSE IF \E i \in I : Covers(i, l) THEN << >>
                     ELSE << f[l] >>
            expected == Flatten([l \in 1..Len(f) |-> Before(l) \o Stands(l)])
            orders == { q \in [I -> I] : \A i, j \in I : i # j => q[i] # q[j] }
        IN separate =>
              /\ fn_io.out = expected
              /\ \A q \in orders : apply_edits(f, [i \in I |-> ops[q[i]]]) = fn_io.out

\* C29: when a tool round leaves more than 30 messages, in the localize phase
\* and in the patch phase alike, the list after the truncation still holds
\* every system message, the first 3 non-system messages and the last 15
\* non-system messages of the list before it.
C29_TruncationKeepsHeadAndTail ==
    [][ LET Kept(before, after) ==
                LET other == SelectSeq(before, IsOther)
                    n == Len(other)
                    must == { before[i] : i \in { j \in 1..Len(before) : IsSystem(before[j]) } }
                            \cup { other[i] : i \in 1..(IF n < 3 THEN n ELSE 3) }
                            \cup { other[i] : i \in (IF n < 15 THEN 1 ELSE n - 14)..n }
                IN \A m \in must : \E i \in 1..Len(after) : after[i] = m
            Round(q) == q \o [k \in 1..q[Len(q)].n |-> ToolMsg(q[Len(q)].id, k)]
        IN /\ (pc = "loc_tools" /\ pc' = "loc_top" /\ Len(Round(messages)) > 30)
                => Kept(Round(messages), messages')
           /\ (pc = "patch_tools" /\ pc' = "patch_top" /\ Len(Round(patch_messages)) > 30)
                => Kept(Round(patch_messages), patch_messages') ]_vars

\* C30: in G0, when the harness succeeded, the only patch-phase response of
\* the run was a valid unified diff without tool calls, apply_patch_fn answered
\* ok and the validation passed within the time limit, the run has returned
\* ok = true with iterations = 1, a patch, metrics.patch_attempts = 1 and
\* metrics.apply_success_count = 1.
C30_FirstValidDiffSucceeds ==
    (/\ pc = "done"
     /\ cfg.variant = "G0"
     /\ hist.harness = "ok"
     /\ hist.responses.patch = 1
     /\ hist.attempts = << Out("diff_ok", 0, "") >>
     /\ hist.apply_ok
     /\ hist.validate.outcome = "passed"
     /\ ~hist.validate.late)
    => /\ result.kind = "return"
       /\ result.ok
       /\ result.iterations = 1
       /\ result.patch # NoPatch
       /\ metrics.patch_attempts = 1
       /\ metrics.apply_success_count = 1

C30_Witness ==
    /\ pc = "done"
    /\ cfg.variant = "G0"
    /\ hist.responses.patch = 1
    /\ hist.attempts = << Out("diff_ok", 0, "") >>
    /\ hist.apply_ok
    /\ hist.validate.outcome = "passed"
    /\ result.ok
    /\ result.patch = LlmDiff(1)

\* C21: one request that keeps failing with a retryable error (rate limit,
\* timeout, 500/502/503) makes at most 5 client calls, and the wait slept after
\* its k-th failure is 2 * 2^(k-1) seconds (2, 4, 8, 16), or 60 seconds when
\* that failure is a rate limit whose message names a per-minute quota.
C21_BackoffDoublesUpToFiveCalls ==
    /\ hist.req.calls <= 5
    /\ Len(hist.req.waits) <= 4
    /\ \A k \in 1..Len(hist.req.waits) :
          LET base == CASE k = 1 -> 2 [] k = 2 -> 4 [] k = 3 -> 8 [] OTHER -> 16
          IN hist.req.waits[k] =
                IF hist.req.errs[k] = "err_rate_limit_per_min"
                THEN (IF base >= 60 THEN base ELSE 60) ELSE base

C21_Witness ==
    /\ hist.req.calls = 5
    /\ Len(hist.req.waits) = 4
    /\ hist.req.errs[1] = "err_rate_limit_per_min"
    /\ hist.req.errs[4] = "err_temporary"
    /\ Len(hist.req.errs) = 5

(***************************************************************************)
(* Runs whose collaborators always return: no adapter raises, the client   *)
(* answers or fails with an error the loop catches.  The loop is the only  *)
(* process, so it takes its next step whenever it has one.                 *)
(***************************************************************************)
ReturningEnv ==
    [QuietEnv EXCEPT
       !.validate = {"passed", "failed"},
       !.llm_errors = {Out("err_other", 0, "")}]

LiveRuns ==
    { \* every gate on, patches that fail a gate or the validation
      [cfg |-> RunConfig("G5", 1, LocBudget, PatchBudget, Budget),
       env |-> [ReturningEnv EXCEPT
                  !.compile = {"ok", "fail"},
                  !.green = {TestResult("ret", TRUE, TRUE, 0),
                             TestResult("ret", TRUE, TRUE, 1)},
                  !.loc_replies = {Out("tools", 1, ""), Out("plain", 0, "")}]],
      \* no gate, two iterations, tool rounds and empty patches
      [cfg |-> RunConfig("G0", 2, LocBudget, PatchBudget, Budget),
       env |-> [ReturningEnv EXCEPT
                  !.patch_replies = {Out("tools", 1, ""), Out("empty", 0, "")}]] }

InitLive == \E r \in LiveRuns : InitWith(r.cfg, r.env)

NextLive ==
    \/ Harness
    \/ RedCompile
    \/ RedTest
    \/ IterStart
    \/ LocalizeTop
    \/ LocalizeLLM
    \/ LocalizeForcedLLM
    \/ LocalizeTools
    \/ PatchTop
    \/ PatchLLM
    \/ PatchTools
    \/ Apply
    \/ Compile
    \/ Canon
    \/ Green
    \/ Validate

SpecLive == InitLive /\ [][NextLive]_vars /\ WF_vars(NextLive)

\* C31: a patch phase issues at most max_patch_phase_api_calls LLM requests (a
\* request that fails consumes its unit like one that is answered; the retries
\* of a request belong to it), a localize phase issues at most
\* max_localization_api_calls requests that leave the tools enabled and at most
\* one forced request, the loop never works in an iteration beyond max_iters,
\* and with collaborators that always return every run reaches its return.
C31_BudgetsBoundEveryRun ==
    /\ [](/\ hist.in_phase.patch <= cfg.max_patch_phase_api_calls
          /\ hist.in_phase.free <= cfg.max_localization_api_calls
          /\ hist.in_phase.localize <= hist.in_phase.free + 1
          /\ (pc \notin {"iter", "done"} => it <= cfg.max_iters)
          /\ (pc = "done" => /\ result.kind = "return"
                             /\ result.iterations <= cfg.max_iters))
    /\ <>(pc = "done")

\* a run that returned after a patch phase that spent its whole API budget,
\* one unit of it on a request that failed, and after a localize phase that
\* spent its budget and then made the forced request
C31_Witness ==
    /\ pc = "done"
    /\ result.kind = "return"
    /\ hist.in_phase.patch = cfg.max_patch_phase_api_calls
    /\ hist.responses.patch < hist.requests.patch
    /\ hist.in_phase.free = cfg.max_localization_api_calls
    /\ hist.in_phase.localize = hist.in_phase.free + 1

\* C32: force_structured_edits is set only by a malformed unified diff that
\* comes directly after at least two consecutive identical format_error
\* failures; identical failures of another type (validation_failed,
\* green_failed) followed by one malformed diff never set it.
C32_ForcedOnlyAfterFormatErrors ==
    force_structured_edits =>
        LET q == hist.force_prev
        IN /\ Len(q) >= ForceAfterRepeats
           /\ \A i \in (Len(q) - ForceAfterRepeats + 1)..Len(q) :
                /\ q[i].type = "format_error"
                /\ q[i].sig = q[Len(q)].sig

C34_CompileFailuresCountRejections ==
    metrics.compile_failures = hist.compile_rejected

(***************************************************************************)
(* One process, several invocations of run_agent_loop_ablation.  The       *)
(* tool-call cache is the module-level dict of agent/utils.py: there is    *)
(* one per process.  Every invocation has its own ToolRuntime and its own  *)
(* working tree; version is the state of that tree (0: HEAD, k: after the  *)
(* k-th write since HEAD).  Here runtime holds the process.                *)
(***************************************************************************)
MaxInvocations == 2
MaxWrites == 2

NotStarted == [pc |-> "idle", version |-> 0]
\* the working tree of an invocation that returned is not followed further
HasReturned == [pc |-> "done", version |-> 0]
NoServed == [by |-> 0, name |-> "none", how |-> "none", res |-> NoResult, fresh |-> NoResult]

Process0 ==
    [ cache |-> {},             \* _tool_call_cache
      invocations |-> [i \in 1..MaxInvocations |-> NotStarted],
      served |-> NoServed ]     \* the tool call handled last: by which invocation,
                                \* how, the result put into the tool message, and
                                \* what the callable returns at that moment

\* what the callable returns in invocation i: a read gives the text as it
\* stands in the working tree of i
Execute(rt, i, name) == ToolResult(TRUE, [run |-> i, version |-> rt.invocations[i].version], "")

\* apply_patch / apply_edits called as tools write into the working tree
WritesWorkdir(name) == name \in {"apply_patch", "apply_edits"}

NextVersion(v) == IF v < MaxWrites THEN v + 1 ELSE 1

\* one turn of "for tc in tool_calls:" in invocation i
HandleCallIn(rt, i, tc) ==
    LET args == json_loads(tc.arguments)
        cached_result == get_cached_result(rt.cache, tc.name, args)
        fresh == Execute(rt, i, tc.name)
        done(how, res) ==
            [rt EXCEPT !.served = [by |-> i, name |-> tc.name, how |-> how,
                                   res |-> res, fresh |-> fresh]]
    IN IF tc.name \notin func_map(cfg, env)
       THEN done("unavailable", NotAvailable)
       ELSE IF cached_result # NoResult
       THEN done("cached", cached_result)
       ELSE IF ~Binds(tc.name, args)
       THEN [done("raised", NoResult) EXCEPT !.invocations[i] = HasReturned]
       ELSE [done("executed", fresh) EXCEPT
               !.cache = cache_tool_result(@, tc.name, args, fresh),
               !.invocations[i].version =
                   IF WritesWorkdir(tc.name) THEN NextVersion(@) ELSE @]

\* run_agent_loop_ablation is entered: clear_cache()
EnterRun ==
    /\ \E i \in 1..MaxInvocations :
         /\ runtime.invocations[i].pc = "idle"
         /\ runtime' = [runtime EXCEPT !.cache = {},
                                       !.invocations[i] = [pc |-> "running", version |-> 0]]
    /\ UNCHANGED << cfg, env, loop_vars, fn_io >>

\* a tool call of the LLM is handled in a running invocation
CallTool ==
    /\ \E i \in 1..MaxInvocations, name \in env.tool_names, a \in env.tool_args :
         /\ runtime.invocations[i].pc = "running"
         /\ runtime' = HandleCallIn(runtime, i, [id |-> 1, name |-> name, arguments |-> a])
    /\ UNCHANGED << cfg, env, loop_vars, fn_io >>

\* the loop itself applies a patch: ap = apply_patch_fn(patch_text)
LoopApplies ==
    /\ \E i \in 1..MaxInvocations :
         /\ runtime.invocations[i].pc = "running"
         /\ runtime' = [runtime EXCEPT !.invocations[i].version = NextVersion(@)]
    /\ UNCHANGED << cfg, env, loop_vars, fn_io >>

\* the loop resets the working tree: git reset --hard HEAD
LoopResets ==
    /\ \E i \in 1..MaxInvocations :
         /\ runtime.invocations[i].pc = "running"
         /\ runtime.invocations[i].version # 0
         /\ runtime' = [runtime EXCEPT !.invocations[i].version = 0]
    /\ UNCHANGED << cfg, env, loop_vars, fn_io >>

\* the invocation returns
ExitRun ==
    /\ \E i \in 1..MaxInvocations :
         /\ runtime.invocations[i].pc = "running"
         /\ runtime' = [runtime EXCEPT !.invocations[i] = HasReturned]
    /\ UNCHANGED << cfg, env, loop_vars, fn_io >>

ProcessRuns ==
    { [cfg |-> RunConfig("G5", 1, LocBudget, PatchBudget, Budget),
       env |-> [QuietEnv EXCEPT
                  !.tool_names = {"read_file", "read_span", "apply_patch"},
                  !.tool_args = {ArgsText("object", "a", 1)}]] }

InitProcess ==
    /\ \E r \in ProcessRuns : InitLoop(r.cfg, r.env)
    /\ runtime = Process0
    /\ fn_io = NoCall

NextProcess ==
    \/ EnterRun
    \/ CallTool
    \/ LoopApplies
    \/ LoopResets
    \/ ExitRun

SpecProcess == InitProcess /\ [][NextProcess]_vars

\* C35: a tool result cached during one invocation of run_agent_loop_ablation
\* is never returned to another invocation, whether the invocations follow
\* one another or overlap in the process.
C35_CacheNeverCrossesInvocations ==
    runtime.served.how = "cached" => runtime.served.res.val.run = runtime.served.by

\* C36: a read_file or read_span result served from the cache is what the
\* tool would return at that moment (here for the results the invocation
\* stored itself): none is served after apply_patch, apply_edits or a git
\* reset changed the working tree since it was stored.
C36_CachedReadIsCurrent ==
    ( /\ runtime.served.how = "cached"
      /\ runtime.served.name \in {"read_file", "read_span"}
      /\ runtime.served.res.val.run = runtime.served.by )
    => [runtime.served.res EXCEPT !._cached = FALSE] = runtime.served.fresh

\* C37: within one patch phase the counter tool_call_count, on which the
\* continue-or-break decision after a failed attempt is taken, is the
\* cumulative number of tool calls requested in the phase: no step decreases
\* it, a tool round that truncates the conversation included.
C37_PatchToolCallCountNeverDecreases ==
    [][ (pc \in {"patch_top", "patch_llm", "patch_tools"}
         /\ pc' \in {"patch_top", "patch_llm", "patch_tools"})
        => tool_call_count' >= tool_call_count ]_vars

C39_TruncatedToThreshold ==
    [][ LET Round(q) == q \o [k \in 1..q[Len(q)].n |-> ToolMsg(q[Len(q)].id, k)]
        IN /\ (pc = "loc_tools" /\ pc' = "loc_top" /\ Len(Round(messages)) > 30)
                => Len(messages') <= 30
           /\ (pc = "patch_tools" /\ pc' = "patch_top" /\ Len(Round(patch_messages)) > 30)
                => Len(patch_messages') <= 30 ]_vars

LocalizePcs == {"harness", "red_compile", "red_test", "iter", "loc_top", "loc_llm",
                "loc_forced", "loc_tools"}

====
